---- MODULE Spec2Model ----
(***************************************************************************)
(* Slotty: the availability monitor and dispatch engine.                   *)
(*                                                                         *)
(*   store   : DB      (sqlite version, src/unnamed/part_007)              *)
(*   worker  : Worker  (src/unnamed/part_006)                              *)
(*   notifier: Notifier (src/server/notify.js)                             *)
(*                                                                         *)
(* One action is one resumption of an async function: the awaited          *)
(* statement (SQL statement, fetch, SMS call) takes effect and the code    *)
(* runs on to its next await.                                              *)
(***************************************************************************)
EXTENDS Integers, Sequences, FiniteSets, TLC

(***************************************************************************)
(* Bounds of the model                                                     *)
(***************************************************************************)
\* run ids the AUTOINCREMENT sequence may hand out
MaxRuns == 3
\* run ids the callers of the store interface may use up
MaxStoreRuns == 2
\* check cycles the timer starts in one behaviour
MaxCycles == 3
\* injected failures (SQL statement, fetch, SMS transport) in one behaviour of
\* the worker
MaxFaults == 1
\* injected failures of SQL statements in one behaviour of the store interface
MaxStoreFaults == 2
\* number of times the clock advances
MaxClock == 2
\* createRun calls of outside callers in flight at once
MaxCalls == 2
\* REST updates in one behaviour
MaxUpdates == 1
\* timers setInterval hands out while the worker is started, stopped and re-timed
MaxTimers == 4
MaxSections == 2
MaxContactLen == 4
MaxTemplateLen == 2

(***************************************************************************)
(* Program constants                                                       *)
(***************************************************************************)
\* config.slotDataTtl, seconds
slotDataTtl == 60
\* retention of the run ledger, seconds
runRetention == 120
\* config.workerInterval, seconds
workerInterval == 15

\* the clock is observed every ClockStep seconds
ClockStep == 2 * slotDataTtl

\* SQL NULL / JS undefined for an id column
NULL == 0

\* concurrent callers: the slots of in-flight cycles (or API callers)
Slots == {1, 2}
\* notification ids the store may hand out
NIds == {1, 2}
\* the values utils.generateAccessKey draws from
AccessKeys == {"k1", "k2"}

\* strings the code inspects character by character are sequences of characters
Phone == <<"+", "1", "5">>
Email == <<"a", "@", "b">>
NoString == <<>>
SecKey == <<"A", "1", " ">>

VARIABLES
  notifications,  \* table notifications: sequence of rows, row i has notification_id = i
  runs,           \* table runs: set of rows
  nextRunId,      \* AUTOINCREMENT sequence of runs.run_id
  now,            \* wall clock, seconds
  tasks,          \* tasks[c][n]: the performSingleCheck/createRun call of caller c for notification n
  cycles,         \* cycles[c]: the performSlotCheck call in slot c
  intervalID,     \* Worker.intervalID (NULL = undefined)
  timers,         \* active setInterval timers
  nextTimer,      \* ids setInterval hands out
  ticks,          \* cycles started so far
  interval,       \* Worker._interval, milliseconds
  periods,        \* periods[id]: the delay setInterval was given for timer id
  returned,       \* what the latest start() or stop() call returned
  listed,         \* the latest listActiveNotifications call of an outside caller
  calls,          \* requests of outside callers in flight: calls.sms the POST /sms
                  \* webhook, calls.put the PUT /notifications/:accessKey route,
                  \* calls.proven[n] the contacts an SMS with the access key of n came from,
                  \* calls.rejected the argument of the latest createNotification call
                  \* that threw on its argument check, calls.checked the criterion,
                  \* the course and the event of the evaluation under study,
                  \* calls.notify the call of the notifier under study
  creating,       \* creating[c]: the createNotification call of caller c
  faults,         \* failures still to be injected
  updates,        \* REST updates so far
  hist            \* history of dispatches and evaluations, per notification

vars == <<notifications, runs, nextRunId, now, tasks, cycles, intervalID,
          timers, nextTimer, ticks, interval, periods, returned, listed,
          calls, creating, faults, updates, hist>>

storeVars == <<notifications, runs, nextRunId>>
workerVars == <<intervalID, timers, nextTimer, ticks, interval, periods, returned>>

\* no request in flight, no SMS received yet, no createNotification call rejected
NoCalls ==
  [ sms      |-> [pc |-> "idle", accessKey |-> "", from |-> <<>>, allowed |-> FALSE],
    put      |-> [pc |-> "idle", id |-> 0, contact |-> <<>>, accessKey |-> "",
                  status |-> 0],
    post     |-> [pc |-> "idle", id |-> 0, status |-> 0],
    proven   |-> [n \in NIds |-> {}],
    rejected |-> <<>>,
    checked  |-> <<>>,
    notify   |-> <<>> ]

\* one more injected failure is allowed
CanFail == faults > 0

(***************************************************************************)
(* Store: rows and conversions                                             *)
(***************************************************************************)
ExistingIds == DOMAIN notifications

RunById(id) == CHOOSE r \in runs : r.run_id = id
HasRun(id) == \E r \in runs : r.run_id = id
RunsOf(n) == {r \in runs : r.notification_id = n}

\* toNotification: row of notifications -> Notification
toNotification(data) ==
  [ id             |-> data.notification_id,
    notificationId |-> data.notification_id,
    lastRunId      |-> data.last_run_id,
    accessKey      |-> data.access_key,
    institutionKey |-> data.institution_key,
    courseKey      |-> data.course_key,
    sectionKey     |-> data.section_key,
    termKey        |-> data.term_key,
    contact        |-> data.contact,
    enabled        |-> data.enabled ]

\* the verified column, read with the row
toVerified(data) == [ verified |-> data.verified ]

\* a conversion that reads every run as marked sent
toRunSent(data) ==
  [ runId            |-> data.run_id,
    timestamp        |-> data.timestamp,
    notificationSent |-> TRUE ]

\* toRun on the run columns of a joined row; a missing run (LEFT JOIN) reads
\* as run_id NULL and notification_sent NULL, and !!NULL is false
toRun(data) ==
  [ runId            |-> data.run_id,
    timestamp        |-> data.timestamp,
    notificationSent |-> data.notification_sent ]

\* the joined row of listActiveNotifications for notification row d
JoinLastRun(d) ==
  IF d.last_run_id # NULL /\ HasRun(d.last_run_id)
  THEN LET r == RunById(d.last_run_id) IN
       [ row |-> d, joined |-> TRUE, run_id |-> r.run_id,
         timestamp |-> r.timestamp, notification_sent |-> r.notification_sent ]
  ELSE [ row |-> d, joined |-> FALSE, run_id |-> NULL,
         timestamp |-> -1, notification_sent |-> FALSE ]

\* toActiveNotification: merge of toRun and toNotification, id removed
toActiveNotification(j) ==
  LET nt == toNotification(j.row)
      rn == toRun(j)
      vf == toVerified(j.row)
  IN [ notificationId   |-> nt.notificationId,
       lastRunId        |-> nt.lastRunId,
       accessKey        |-> nt.accessKey,
       institutionKey   |-> nt.institutionKey,
       courseKey        |-> nt.courseKey,
       sectionKey       |-> nt.sectionKey,
       termKey          |-> nt.termKey,
       contact          |-> nt.contact,
       enabled          |-> nt.enabled,
       verified         |-> vf.verified,
       runId            |-> rn.runId,
       notificationSent |-> rn.notificationSent ]

(***************************************************************************)
(* Store: listActiveNotifications                                          *)
(***************************************************************************)
\* a WHERE clause that does not look at the age of the last run
IsDueAnyAge(j, effectiveTtl) == j.row.enabled

\* a WHERE clause that does not look at the enabled column
IsDueDisabledToo(j, effectiveTtl) ==
  \/ j.row.last_run_id = NULL
  \/ (j.joined /\ j.timestamp + effectiveTtl < now)

\* the WHERE clause of listActiveNotifications on a joined row
IsDue(j, effectiveTtl) ==
  /\ \/ j.row.last_run_id = NULL
     \/ (j.joined /\ j.timestamp + effectiveTtl < now)
  /\ j.row.enabled

DueRows(effectiveTtl) ==
  {j \in {JoinLastRun(notifications[i]) : i \in ExistingIds} : IsDue(j, effectiveTtl)}

\* ORDER BY runs.timestamp ASC: NULL timestamps first, ties in rowid order
RowBefore(a, b) ==
  \/ a.timestamp < b.timestamp
  \/ (a.timestamp = b.timestamp /\ a.row.notification_id < b.row.notification_id)

RECURSIVE OrderRows(_)
OrderRows(S) ==
  IF S = {} THEN <<>>
  ELSE LET first == CHOOSE a \in S : \A b \in S \ {a} : RowBefore(a, b)
       IN <<first>> \o OrderRows(S \ {first})

\* a query without its LIMIT
LimitNone(seq, limit) == seq

\* LIMIT: a negative limit is no limit
Limit(seq, limit) ==
  IF limit < 0 \/ limit >= Len(seq) THEN seq ELSE SubSeq(seq, 1, limit)

\* a due list that is cut to its head whatever the limit
listActiveNotificationsHead(effectiveTtl, limit) ==
  LET rows == Limit(OrderRows(DueRows(effectiveTtl)), 1)
  IN [i \in DOMAIN rows |-> toActiveNotification(rows[i])]

listActiveNotifications(effectiveTtl, limit) ==
  LET rows == Limit(OrderRows(DueRows(effectiveTtl)), limit)
  IN [i \in DOMAIN rows |-> toActiveNotification(rows[i])]

\* no call yet
NotListed == [outcome |-> "none", ttl |-> 0, limit |-> 0, result |-> <<>>]

\* what a call listActiveNotifications(effectiveTtl, limit) answers: a
\* negative TTL throws before the query
listActiveNotificationsCall(effectiveTtl, limit) ==
  IF effectiveTtl < 0
  THEN [outcome |-> "threw", ttl |-> effectiveTtl, limit |-> limit, result |-> <<>>]
  ELSE [outcome |-> "returned", ttl |-> effectiveTtl, limit |-> limit,
        result |-> listActiveNotifications(effectiveTtl, limit)]

(***************************************************************************)
(* Store: createRun                                                        *)
(***************************************************************************)
IdleTask ==
  [ pc |-> "idle", prev |-> FALSE, open |-> FALSE, sent |-> FALSE, error |-> FALSE,
    ts |-> 0, runId |-> NULL, ret |-> 0, outcome |-> "none", value |-> 0 ]

SetTask(c, n, t) == tasks' = [tasks EXCEPT ![c][n] = t]

\* a run row that is always marked sent
RunRowSent(n, t, id) ==
  [ run_id |-> id, notification_id |-> n, error |-> t.error,
    timestamp |-> t.ts, notification_sent |-> TRUE ]

\* the run row createRun inserts for task t of notification n
RunRow(n, t, id) ==
  [ run_id |-> id, notification_id |-> n, error |-> t.error,
    timestamp |-> t.ts, notification_sent |-> t.sent ]

\* createRun up to its first await: the argument check (a missing
\* notificationSent throws at once and starts nothing), the timestamp default
\* (new Date()), and the INSERT issued. sentArg is the notificationSent
\* argument ("undefined" when missing); ret is what the caller returns after
\* a successful createRun.
createRunCall(t, sentArg, error, ret) ==
  IF sentArg = "undefined"
  THEN t
  ELSE [t EXCEPT !.pc = "insert", !.sent = (sentArg = "true"), !.error = error,
                 !.ts = now, !.ret = ret, !.runId = NULL, !.outcome = "none"]

\* an INSERT after which the statement is issued once more
createRunInsertedTwice(t, id) == [t EXCEPT !.runId = id]

\* INSERT INTO runs executes: the row gets the next AUTOINCREMENT id
createRunInserted(t, id) == [t EXCEPT !.pc = "update", !.runId = id]

\* the INSERT rejects: createRun throws, nothing was inserted
createRunInsertFailed(t) == [IdleTask EXCEPT !.pc = "done", !.outcome = "threw"]

\* FOREIGN KEY (notification_id) REFERENCES notifications: the INSERT of a run
\* of a notification that does not exist is rejected
RunInsertAllowed(n) == \E i \in ExistingIds : notifications[i].notification_id = n

RunInsert(c, n) ==
  /\ tasks[c][n].pc = "insert"
  /\ \/ /\ RunInsertAllowed(n)
        /\ nextRunId <= MaxRuns
        /\ runs' = runs \cup {RunRow(n, tasks[c][n], nextRunId)}
        /\ nextRunId' = nextRunId + 1
        /\ SetTask(c, n, createRunInserted(tasks[c][n], nextRunId))
        /\ UNCHANGED faults
     \/ /\ ~RunInsertAllowed(n)
        /\ SetTask(c, n, createRunInsertFailed(tasks[c][n]))
        /\ UNCHANGED <<runs, nextRunId, faults>>
     \/ /\ CanFail
        /\ faults' = faults - 1
        /\ SetTask(c, n, createRunInsertFailed(tasks[c][n]))
        /\ UNCHANGED <<runs, nextRunId>>
  /\ UNCHANGED <<notifications, now, cycles, workerVars, creating, listed, calls, updates, hist>>

\* rows matched by UPDATE notifications ... WHERE notification_id = n
PointerTargets(n) == {i \in ExistingIds : notifications[i].notification_id = n}

\* the pointer update without its WHERE clause
SetLastRunEverywhere(n, lastID) ==
  [i \in ExistingIds |-> [notifications[i] EXCEPT !.last_run_id = lastID]]

\* UPDATE notifications SET last_run_id = lastID WHERE notification_id = n
SetLastRun(n, lastID) ==
  [i \in ExistingIds |->
     IF i \in PointerTargets(n)
     THEN [notifications[i] EXCEPT !.last_run_id = lastID]
     ELSE notifications[i]]

\* the pointer update succeeded with changes >= 1: createRun returns the run
createRunReturned(t) ==
  [IdleTask EXCEPT !.pc = "done", !.outcome = "returned", !.value = t.ret,
                   !.error = t.error]

\* the pointer update threw or matched no row: the compensating DELETE is issued
createRunUndo(t) == [t EXCEPT !.pc = "rollback"]

\* FOREIGN KEY (last_run_id) REFERENCES runs: the UPDATE to the id of a run
\* that no longer exists is rejected
PointerAllowed(lastID) == HasRun(lastID)

RunUpdate(c, n) ==
  /\ tasks[c][n].pc = "update"
  /\ \/ /\ PointerTargets(n) # {}
        /\ PointerAllowed(tasks[c][n].runId)
        /\ notifications' = SetLastRun(n, tasks[c][n].runId)
        /\ SetTask(c, n, createRunReturned(tasks[c][n]))
        /\ UNCHANGED faults
     \/ /\ PointerTargets(n) = {} \/ ~PointerAllowed(tasks[c][n].runId)
        /\ SetTask(c, n, createRunUndo(tasks[c][n]))
        /\ UNCHANGED <<notifications, faults>>
     \/ /\ CanFail
        /\ faults' = faults - 1
        /\ SetTask(c, n, createRunUndo(tasks[c][n]))
        /\ UNCHANGED notifications
  /\ UNCHANGED <<runs, nextRunId, now, cycles, workerVars, creating, listed, calls, updates, hist>>

\* DELETE FROM runs WHERE run_id = lastID
DeleteRun(lastID) == {r \in runs : r.run_id # lastID}

\* ON DELETE SET NULL: a last_run_id that pointed to a deleted run becomes NULL
SetNullOnDelete(remaining) ==
  [i \in ExistingIds |->
     IF notifications[i].last_run_id # NULL
        /\ ~(\E r \in remaining : r.run_id = notifications[i].last_run_id)
        /\ HasRun(notifications[i].last_run_id)
     THEN [notifications[i] EXCEPT !.last_run_id = NULL]
     ELSE notifications[i]]

\* after the DELETE (done or failed and only warned about) createRun throws
createRunThrew(t) == [IdleTask EXCEPT !.pc = "done", !.outcome = "threw"]

RunRollback(c, n) ==
  /\ tasks[c][n].pc = "rollback"
  /\ \/ /\ runs' = DeleteRun(tasks[c][n].runId)
        /\ notifications' = SetNullOnDelete(DeleteRun(tasks[c][n].runId))
        /\ UNCHANGED faults
     \/ /\ CanFail
        /\ faults' = faults - 1
        /\ UNCHANGED <<runs, notifications>>
  /\ SetTask(c, n, createRunThrew(tasks[c][n]))
  /\ UNCHANGED <<nextRunId, now, cycles, workerVars, creating, listed, calls, updates, hist>>

(***************************************************************************)
(* Store: updateNotification                                               *)
(***************************************************************************)
\* fieldMapping: notification field -> column
fieldMapping == {"institutionKey", "courseKey", "sectionKey", "termKey", "contact", "enabled"}

\* the verified column is updatable as well
verifiedMapping == {"verified"}

fieldsToSet(p) == (fieldMapping \cup verifiedMapping) \cap DOMAIN p

\* an UPDATE without its WHERE clause
UpdateTargetsAll(p) == ExistingIds

\* rows matched by the WHERE clause: by id when an id is present, else by access key
UpdateTargets(p) ==
  IF "id" \in DOMAIN p
  THEN {i \in ExistingIds : notifications[i].notification_id = p.id}
  ELSE {i \in ExistingIds : notifications[i].access_key = p.accessKey}

\* the verified column after an update: set when given, cleared when the
\* contact changes
verifiedAfterUpdate(row, p) ==
  IF "verified" \in DOMAIN p THEN p.verified
  ELSE IF "contact" \in DOMAIN p /\ p.contact # row.contact THEN FALSE
  ELSE row.verified

\* an UPDATE that leaves last_run_id as it is
UpdatedRowKeepsRun(row, p) ==
  [ notification_id |-> row.notification_id,
    last_run_id     |-> row.last_run_id,
    access_key      |-> row.access_key,
    institution_key |-> IF "institutionKey" \in DOMAIN p THEN p.institutionKey ELSE row.institution_key,
    course_key      |-> IF "courseKey" \in DOMAIN p THEN p.courseKey ELSE row.course_key,
    section_key     |-> IF "sectionKey" \in DOMAIN p THEN p.sectionKey ELSE row.section_key,
    term_key        |-> IF "termKey" \in DOMAIN p THEN p.termKey ELSE row.term_key,
    contact         |-> IF "contact" \in DOMAIN p THEN p.contact ELSE row.contact,
    enabled         |-> IF "enabled" \in DOMAIN p THEN p.enabled ELSE row.enabled,
    verified        |-> row.verified ]

\* an UPDATE that also writes the access key of its argument
UpdatedRowKeyed(row, p) ==
  [ notification_id |-> row.notification_id,
    last_run_id     |-> NULL,
    access_key      |-> IF "accessKey" \in DOMAIN p THEN p.accessKey ELSE row.access_key,
    institution_key |-> IF "institutionKey" \in DOMAIN p THEN p.institutionKey ELSE row.institution_key,
    course_key      |-> IF "courseKey" \in DOMAIN p THEN p.courseKey ELSE row.course_key,
    section_key     |-> IF "sectionKey" \in DOMAIN p THEN p.sectionKey ELSE row.section_key,
    term_key        |-> IF "termKey" \in DOMAIN p THEN p.termKey ELSE row.term_key,
    contact         |-> IF "contact" \in DOMAIN p THEN p.contact ELSE row.contact,
    enabled         |-> IF "enabled" \in DOMAIN p THEN p.enabled ELSE row.enabled,
    verified        |-> row.verified ]

\* UPDATE notifications SET <fields present>, last_run_id = NULL
UpdatedRow(row, p) ==
  [ notification_id |-> row.notification_id,
    last_run_id     |-> NULL,
    access_key      |-> row.access_key,
    institution_key |-> IF "institutionKey" \in DOMAIN p THEN p.institutionKey ELSE row.institution_key,
    course_key      |-> IF "courseKey" \in DOMAIN p THEN p.courseKey ELSE row.course_key,
    section_key     |-> IF "sectionKey" \in DOMAIN p THEN p.sectionKey ELSE row.section_key,
    term_key        |-> IF "termKey" \in DOMAIN p THEN p.termKey ELSE row.term_key,
    contact         |-> IF "contact" \in DOMAIN p THEN p.contact ELSE row.contact,
    enabled         |-> IF "enabled" \in DOMAIN p THEN p.enabled ELSE row.enabled,
    verified        |-> verifiedAfterUpdate(row, p) ]

\* what updateNotification(p) answers: "threw", "same" (nothing to set: the
\* argument is returned), "undefined" (no row matched) or "updated"
updateNotificationResult(p) ==
  IF ~("id" \in DOMAIN p) /\ ~("accessKey" \in DOMAIN p) THEN "threw"
  ELSE IF fieldsToSet(p) = {} THEN "same"
  ELSE IF UpdateTargets(p) = {} THEN "undefined"
  ELSE "updated"

\* an update that deletes the rows it matches
updateNotificationRemoving(p) ==
  IF updateNotificationResult(p) = "updated"
  THEN SelectSeq(notifications, LAMBDA row : row.notification_id \notin UpdateTargets(p))
  ELSE notifications

\* the notifications table after updateNotification(p)
updateNotification(p) ==
  IF updateNotificationResult(p) = "updated"
  THEN [i \in ExistingIds |->
          IF i \in UpdateTargets(p) THEN UpdatedRow(notifications[i], p)
          ELSE notifications[i]]
  ELSE notifications

\* the partial notifications the REST routes and the SMS webhook pass
UpdateInputs ==
     {[accessKey |-> k, enabled |-> b] : k \in AccessKeys, b \in BOOLEAN}
\cup {[accessKey |-> k, contact |-> Email] : k \in AccessKeys}
\cup {[accessKey |-> k, verified |-> TRUE] : k \in AccessKeys}
\cup {[id |-> n, enabled |-> FALSE] : n \in NIds}
\cup {[accessKey |-> k] : k \in AccessKeys}

\* further partial notifications a caller of the store may pass: an id
\* together with an access key, and changes of the course criteria
UpdatePartials ==
     UpdateInputs
\cup {[id |-> n, accessKey |-> k, enabled |-> FALSE] : n \in NIds, k \in AccessKeys}
\cup {[id |-> n, accessKey |-> k, contact |-> Email] : n \in NIds, k \in AccessKeys}
\cup {[accessKey |-> k, courseKey |-> "CIS2750", sectionKey |-> SecKey] : k \in AccessKeys}
\cup {[accessKey |-> k, institutionKey |-> "UW", termKey |-> "W20"] : k \in AccessKeys}
\cup {[enabled |-> FALSE]}

UpdateNotification(p) ==
  /\ updates < MaxUpdates
  /\ updates' = updates + 1
  /\ notifications' = updateNotification(p)
  /\ UNCHANGED <<runs, nextRunId, now, tasks, cycles, workerVars, creating, listed, calls, faults, hist>>

(***************************************************************************)
(* Store: createNotification                                               *)
(***************************************************************************)
IdleCreate == [ pc |-> "idle", input |-> <<>>, accessKey |-> "" ]

KeyTaken(k) == \E i \in ExistingIds : notifications[i].access_key = k

\* a table whose access_key column accepts any value
UniqueNotEnforced(k) == FALSE

\* access_key TEXT NOT NULL UNIQUE: the INSERT of a key that is stored is rejected
UniqueViolated(k) == KeyTaken(k)

\* an argument check that lets every argument through
createNotificationAcceptsAll(input) == TRUE

\* the argument check of createNotification: a missing field is the empty string
createNotificationValid(input) ==
  /\ input.institutionKey # ""
  /\ input.courseKey # ""
  /\ input.termKey # ""
  /\ input.contact # NoString

\* the row INSERT INTO notifications adds
NewRow(input, k) ==
  [ notification_id |-> Len(notifications) + 1,
    last_run_id     |-> NULL,
    access_key      |-> k,
    institution_key |-> input.institutionKey,
    course_key      |-> input.courseKey,
    section_key     |-> input.sectionKey,
    term_key        |-> input.termKey,
    contact         |-> input.contact,
    enabled         |-> IF "enabled" \in DOMAIN input THEN input.enabled ELSE TRUE,
    verified        |-> FALSE ]

CreateInputs ==
  { [institutionKey |-> "UOG", courseKey |-> "CIS1500", sectionKey |-> NoString,
     termKey |-> "F19", contact |-> Phone],
    [institutionKey |-> "UOG", courseKey |-> "CIS1500", sectionKey |-> NoString,
     termKey |-> "F19", contact |-> NoString] }

\* further arguments of createNotification: one required key missing, and
\* enabled given as false
CreateRequests ==
     CreateInputs
\cup {[institutionKey |-> "", courseKey |-> "CIS1500", sectionKey |-> NoString,
       termKey |-> "F19", contact |-> Phone],
      [institutionKey |-> "UOG", courseKey |-> "", sectionKey |-> NoString,
       termKey |-> "F19", contact |-> Phone],
      [institutionKey |-> "UOG", courseKey |-> "CIS1500", sectionKey |-> SecKey,
       termKey |-> "", contact |-> Phone],
      [institutionKey |-> "UOG", courseKey |-> "CIS1500", sectionKey |-> SecKey,
       termKey |-> "F19", contact |-> Email, enabled |-> FALSE]}

\* createNotification up to its first await: the check (it throws on a
\* missing key or contact), a candidate key, the SELECT issued
CreateCall(c, input, k) ==
  /\ creating[c].pc = "idle"
  /\ IF createNotificationValid(input)
     THEN /\ creating' = [creating EXCEPT ![c] = [pc |-> "check", input |-> input, accessKey |-> k]]
          /\ UNCHANGED calls
     ELSE /\ calls' = [calls EXCEPT !.rejected = input]
          /\ UNCHANGED creating
  /\ UNCHANGED <<storeVars, now, tasks, cycles, workerVars, listed, faults, updates, hist>>

\* the SELECT answers: a taken key is drawn again, a free one goes to the INSERT
CreateCheck(c, k) ==
  /\ creating[c].pc = "check"
  /\ IF KeyTaken(creating[c].accessKey)
     THEN creating' = [creating EXCEPT ![c].accessKey = k]
     ELSE creating' = [creating EXCEPT ![c].pc = "insert"]
  /\ UNCHANGED <<storeVars, now, tasks, cycles, workerVars, listed, calls, faults, updates, hist>>

\* the INSERT executes; access_key is UNIQUE
CreateInsert(c) ==
  /\ creating[c].pc = "insert"
  /\ \/ /\ ~UniqueViolated(creating[c].accessKey)
        /\ Len(notifications) < Cardinality(NIds)
        /\ notifications' = Append(notifications, NewRow(creating[c].input, creating[c].accessKey))
        /\ UNCHANGED faults
     \/ /\ UniqueViolated(creating[c].accessKey)
        /\ UNCHANGED <<notifications, faults>>
     \/ /\ CanFail
        /\ faults' = faults - 1
        /\ UNCHANGED notifications
  /\ creating' = [creating EXCEPT ![c] = IdleCreate]
  /\ UNCHANGED <<runs, nextRunId, now, tasks, cycles, workerVars, listed, calls, updates, hist>>

(***************************************************************************)
(* Store: deletePastRuns, and the clock                                    *)
(***************************************************************************)
PastRuns == {r \in runs : r.timestamp + runRetention < now}

\* the tables after deletePastRuns: the past runs are gone and a last_run_id
\* that pointed to one is NULL (ON DELETE SET NULL)
deletePastRunsRuns == runs \ PastRuns

deletePastRunsNotifications == SetNullOnDelete(runs \ PastRuns)

\* the clock is coarse: a check cycle runs within one step of it. Time is
\* only compared with the timestamps of runs, so the clock is followed from
\* the first run on.
AdvanceClock ==
  /\ now < MaxClock * ClockStep
  /\ nextRunId > 1
  /\ \A c \in Slots : cycles[c].pc = "idle"
  /\ now' = now + ClockStep
  /\ UNCHANGED <<storeVars, tasks, cycles, workerVars, creating, listed, calls, faults, updates, hist>>

(***************************************************************************)
(* The store driven through its interface (any caller)                     *)
(***************************************************************************)
SentArgs == {"undefined", "false", "true"}

\* the createRun calls in flight
InFlight == {x \in Slots \X NIds : tasks[x[1]][x[2]].pc \in {"insert", "update", "rollback"}}

\* a caller calls createRun({notificationSent: sentArg}, n); callers are
\* interchangeable, so the second one is used only while the first is busy
CallCreateRun(c, n, sentArg) ==
  /\ tasks[c][n].pc \in {"idle", "done"}
  /\ \A b \in Slots : b < c => <<b, n>> \in InFlight
  /\ nextRunId + Cardinality({x \in InFlight : tasks[x[1]][x[2]].pc = "insert"}) <= MaxStoreRuns
  /\ Cardinality(InFlight) < MaxCalls
  /\ SetTask(c, n, createRunCall(IdleTask, sentArg, FALSE, 0))
  /\ UNCHANGED <<storeVars, now, cycles, workerVars, creating, listed, calls, faults, updates, hist>>

\* a caller calls deletePastRuns()
CallDeletePastRuns ==
  /\ \/ /\ runs' = deletePastRunsRuns
        /\ notifications' = deletePastRunsNotifications
        /\ UNCHANGED faults
     \/ /\ CanFail
        /\ faults' = faults - 1
        /\ UNCHANGED <<runs, notifications>>
  /\ UNCHANGED <<nextRunId, now, tasks, cycles, workerVars, creating, listed, calls, updates, hist>>

\* result is how the latest finished cycle of the slot ended
IdleCycle ==
  [ pc |-> "idle", due |-> <<>>, pending |-> {}, got |-> {}, result |-> "none",
    total |-> 0, sent |-> 0 ]

\* history of one notification: phase 0 never seen with slots, 1 in its first
\* open window, 2 seen without slots after a window, 3 in a later window;
\* sends counts the dispatches of the current window
NoHist == [n \in NIds |-> [phase |-> 0, sends |-> 0, disturbed |-> FALSE]]

\* a notification created and verified earlier
StoredRow(i, k, course, sectionKey, contact, enabled, verified) ==
  [ notification_id |-> i, last_run_id |-> NULL, access_key |-> k,
    institution_key |-> "UOG", course_key |-> course, section_key |-> sectionKey,
    term_key |-> "F19", contact |-> contact, enabled |-> enabled, verified |-> verified ]

InitStore ==
  /\ notifications = <<StoredRow(1, "k1", "CIS1500", NoString, Phone, TRUE, TRUE)>>
  /\ runs = {}
  /\ nextRunId = 1
  /\ now = 0
  /\ tasks = [c \in Slots |-> [n \in NIds |-> IdleTask]]
  /\ cycles = [c \in Slots |-> IdleCycle]
  /\ intervalID = NULL
  /\ timers = {}
  /\ nextTimer = 1
  /\ ticks = 0
  /\ interval = workerInterval * 1000
  /\ periods = <<>>
  /\ returned = "none"
  /\ listed = NotListed
  /\ calls = NoCalls
  /\ creating = [c \in Slots |-> IdleCreate]
  /\ faults = MaxStoreFaults
  /\ updates = 0
  /\ hist = NoHist

NextStore ==
  \/ \E input \in {i \in CreateInputs : createNotificationValid(i)}, k \in AccessKeys :
       CreateCall(1, input, k)
  \/ \E k \in AccessKeys : CreateCheck(1, k)
  \/ CreateInsert(1)
  \/ \E p \in UpdateInputs : UpdateNotification(p)
  \/ \E c \in Slots, n \in NIds, a \in SentArgs : CallCreateRun(c, n, a)
  \/ \E c \in Slots, n \in NIds : RunInsert(c, n)
  \/ \E c \in Slots, n \in NIds : RunUpdate(c, n)
  \/ \E c \in Slots, n \in NIds : RunRollback(c, n)
  \/ CallDeletePastRuns
  \/ AdvanceClock

SpecStore == InitStore /\ [][NextStore]_vars

(***************************************************************************)
(* Concurrent createNotification calls on a new database                   *)
(***************************************************************************)
InitCreate ==
  /\ notifications = <<>>
  /\ runs = {}
  /\ nextRunId = 1
  /\ now = 0
  /\ tasks = [c \in Slots |-> [n \in NIds |-> IdleTask]]
  /\ cycles = [c \in Slots |-> IdleCycle]
  /\ intervalID = NULL
  /\ timers = {}
  /\ nextTimer = 1
  /\ ticks = 0
  /\ interval = workerInterval * 1000
  /\ periods = <<>>
  /\ returned = "none"
  /\ listed = NotListed
  /\ calls = NoCalls
  /\ creating = [c \in Slots |-> IdleCreate]
  /\ faults = MaxFaults
  /\ updates = 0
  /\ hist = NoHist

NextCreate ==
  \/ \E c \in Slots, input \in CreateRequests, k \in AccessKeys : CreateCall(c, input, k)
  \/ \E c \in Slots, k \in AccessKeys : CreateCheck(c, k)
  \/ \E c \in Slots : CreateInsert(c)
  \/ \E p \in UpdatePartials : UpdateNotification(p)

SpecCreate == InitCreate /\ [][NextCreate]_vars

(***************************************************************************)
(* listActiveNotifications and updateNotification on a stored ledger       *)
(***************************************************************************)
\* the times of the last runs, around one TTL before the time of the call
ListTimes == {0, slotDataTtl - 1, slotDataTtl, slotDataTtl + 1, 2 * slotDataTtl}

\* the last run of a notification: none, or one at a time of ListTimes
LastRuns ==
  {[has |-> FALSE, ts |-> 0, sent |-> FALSE]}
  \cup {[has |-> TRUE, ts |-> t, sent |-> b] : t \in ListTimes, b \in BOOLEAN}

\* the arguments of the calls
ListTtls == {-1, 0, slotDataTtl, 2 * slotDataTtl}
ListLimits == {-1, 0, 1, 2}

\* a stored notification whose last run, if any, has the id runId; the
\* second notification is not verified yet
ListRow(i, k, enabled, last, runId) ==
  [StoredRow(i, k, "CIS1500", NoString, Phone, enabled, i = 1)
     EXCEPT !.last_run_id = IF last.has THEN runId ELSE NULL]

\* the rows of the last run of notification i
ListRun(i, last, runId) ==
  IF last.has
  THEN {[run_id |-> runId, notification_id |-> i, error |-> FALSE,
         timestamp |-> last.ts, notification_sent |-> last.sent]}
  ELSE {}

\* an earlier run of notification 1, older than every last run
EarlierRun ==
  [run_id |-> 1, notification_id |-> 1, error |-> FALSE, timestamp |-> 0,
   notification_sent |-> TRUE]

\* a ledger as earlier cycles left it: two notifications, each enabled or
\* not, each with or without a last run
InitList ==
  /\ \E e1 \in BOOLEAN, e2 \in BOOLEAN, l1 \in LastRuns, l2 \in LastRuns, old \in BOOLEAN :
       /\ notifications = <<ListRow(1, "k1", e1, l1, 2), ListRow(2, "k2", e2, l2, 3)>>
       /\ runs = ListRun(1, l1, 2) \cup ListRun(2, l2, 3)
                 \cup (IF old THEN {EarlierRun} ELSE {})
  /\ nextRunId = 4
  /\ now = 2 * slotDataTtl
  /\ tasks = [c \in Slots |-> [n \in NIds |-> IdleTask]]
  /\ cycles = [c \in Slots |-> IdleCycle]
  /\ intervalID = NULL
  /\ timers = {}
  /\ nextTimer = 1
  /\ ticks = 0
  /\ interval = workerInterval * 1000
  /\ periods = <<>>
  /\ returned = "none"
  /\ listed = NotListed
  /\ calls = NoCalls
  /\ creating = [c \in Slots |-> IdleCreate]
  /\ faults = 0
  /\ updates = 0
  /\ hist = NoHist

\* a caller calls listActiveNotifications(effectiveTtl, limit)
CallList(effectiveTtl, limit) ==
  /\ listed' = listActiveNotificationsCall(effectiveTtl, limit)
  /\ UNCHANGED <<storeVars, now, tasks, cycles, workerVars, creating, calls, faults, updates, hist>>

NextList == \E effectiveTtl \in ListTtls, limit \in ListLimits : CallList(effectiveTtl, limit)

SpecList == InitList /\ [][NextList]_vars

\* updateNotification called on a stored ledger
NextUpdate == \E p \in UpdatePartials : UpdateNotification(p)

SpecUpdate == InitList /\ [][NextUpdate]_vars

(***************************************************************************)
(* Notifier                                                                *)
(***************************************************************************)
Whitespace == {" "}
Digits == {"0", "1", "2", "3", "4", "5", "6", "7", "8", "9"}

\* destination.replace(/\(|\)|\s|-/g, '')
StripPhone(destination) ==
  SelectSeq(destination, LAMBDA ch : ch \notin ({"(", ")", "-"} \cup Whitespace))

\* /^\+[1-9]\d{1,14}$/
MatchesPhone(s) ==
  /\ Len(s) >= 3
  /\ Len(s) <= 16
  /\ s[1] = "+"
  /\ s[2] \in Digits \ {"0"}
  /\ \A i \in 3..Len(s) : s[i] \in Digits

\* /^\S+@\S+$/
MatchesEmail(s) ==
  /\ \A i \in 1..Len(s) : s[i] \notin Whitespace
  /\ \E i \in 2..(Len(s) - 1) : s[i] = "@"

RECURSIVE TrimLeft(_)
TrimLeft(s) ==
  IF s # <<>> /\ Head(s) \in Whitespace THEN TrimLeft(Tail(s)) ELSE s

RECURSIVE TrimRight(_)
TrimRight(s) ==
  IF s # <<>> /\ s[Len(s)] \in Whitespace
  THEN TrimRight(SubSeq(s, 1, Len(s) - 1)) ELSE s

Trim(s) == TrimRight(TrimLeft(s))

\* a classification that takes every contact for a phone number
getContactInfoAllText(destination) ==
  [type |-> "TEXT", destination |-> StripPhone(destination)]

getContactInfo(destination) ==
  IF Len(destination) <= 0 THEN [type |-> "UNKNOWN", destination |-> NoString]
  ELSE IF MatchesPhone(StripPhone(destination))
       THEN [type |-> "TEXT", destination |-> StripPhone(destination)]
  ELSE IF MatchesEmail(destination)
       THEN [type |-> "EMAIL", destination |-> Trim(destination)]
  ELSE [type |-> "UNKNOWN", destination |-> NoString]

\* sendNotification reaches the Twilio call: a contact is present, its type is
\* known, and sendMessage has a service for the type (EMAIL has none)
sendNotificationCallsTwilio(notification) ==
  /\ notification.contact # NoString
  /\ getContactInfo(notification.contact).type = "TEXT"

(***************************************************************************)
(* Worker: the evaluation of one notification against the course data      *)
(***************************************************************************)
ToLowerCase(s) ==
  [i \in DOMAIN s |-> CASE s[i] = "A" -> "a" [] s[i] = "B" -> "b" [] OTHER -> s[i]]

\* sections and their meetings in one list, as data.course.sections.concat(flatMap)
RECURSIVE FlatMeetings(_)
FlatMeetings(sections) ==
  IF sections = <<>> THEN <<>>
  ELSE Head(sections).meetings \o FlatMeetings(Tail(sections))

\* the entries that carry an id, an available and a capacity value; meetings
\* are fetched without an id (slotsQuery) and read as id NoString
HasSlotFields(entry) == entry.id # NoString

\* find(): the first entry whose cleaned id equals key, or <<>> when none does
FindSection(entries, key) ==
  LET hits == SelectSeq(entries,
                LAMBDA e : HasSlotFields(e) /\ Trim(ToLowerCase(e.id)) = key)
  IN IF hits = <<>> THEN <<>> ELSE <<Head(hits)>>

\* a reduce() that adds the available values up
RECURSIVE SumAvailable(_, _)
SumAvailable(sections, max) ==
  IF sections = <<>> THEN max
  ELSE SumAvailable(Tail(sections),
         [available |-> max.available + Head(sections).available,
          capacity |-> Head(sections).capacity])

\* reduce(): the first section with the largest available value above 0
RECURSIVE MaxAvailable(_, _)
MaxAvailable(sections, max) ==
  IF sections = <<>> THEN max
  ELSE MaxAvailable(Tail(sections),
         IF Head(sections).available > max.available
         THEN [available |-> Head(sections).available, capacity |-> Head(sections).capacity]
         ELSE max)

\* event.availableSlots / event.totalSlots of performSingleCheck
evaluate(notification, data) ==
  LET key == Trim(ToLowerCase(notification.sectionKey)) IN
  IF Len(key) > 0
  THEN LET found == FindSection(data.sections \o FlatMeetings(data.sections), key)
       IN IF found # <<>>
          THEN [availableSlots |-> found[1].available, totalSlots |-> found[1].capacity]
          ELSE [availableSlots |-> 0, totalSlots |-> 0]
  ELSE LET m == MaxAvailable(data.sections, [available |-> 0, capacity |-> 0])
       IN [availableSlots |-> m.available, totalSlots |-> m.capacity]

\* a check that takes any answer as sufficient
InsufficientNever(data) == FALSE

\* the data is insufficient: no data, no course, or no sections
Insufficient(data) == ~data.course

\* what the slotsQuery request brings of a course: of a section its id,
\* available, capacity and meetings, of a meeting its type, name, available
\* and capacity, and no id
slotsQuery(course) ==
  [course |-> course.course,
   sections |-> [i \in DOMAIN course.sections |->
                   [course.sections[i] EXCEPT !.meetings =
                      [j \in DOMAIN course.sections[i].meetings |->
                         [course.sections[i].meetings[j] EXCEPT !.id = NoString]]]]]

\* a check that does not look at notificationSent
performSingleCheckForgetful(notification, data) ==
  IF Insufficient(data) THEN "skip"
  ELSE IF ~notification.enabled \/ ~notification.verified THEN "skip"
  ELSE IF evaluate(notification, data).availableSlots <= 0 THEN "unsent"
  ELSE "dispatch"

\* a check that does not look at enabled and verified
performSingleCheckNoGuard(notification, data) ==
  IF Insufficient(data) THEN "skip"
  ELSE IF notification.notificationSent /\ evaluate(notification, data).availableSlots > 0
       THEN "sent"
  ELSE IF evaluate(notification, data).availableSlots <= 0 THEN "unsent"
  ELSE "dispatch"

\* what performSingleCheck does up to its first await:
\*   "skip"     nothing (insufficient data, disabled or unverified)
\*   "sent"     createRun(notificationSent true)   - already notified
\*   "unsent"   createRun(notificationSent false)  - no slots
\*   "dispatch" notifier.sendNotification
performSingleCheck(notification, data) ==
  IF Insufficient(data) THEN "skip"
  ELSE IF ~notification.enabled \/ ~notification.verified THEN "skip"
  ELSE IF notification.notificationSent /\ evaluate(notification, data).availableSlots > 0
       THEN "sent"
  ELSE IF evaluate(notification, data).availableSlots <= 0 THEN "unsent"
  ELSE "dispatch"

(***************************************************************************)
(* Worker: timer and check cycle                                           *)
(***************************************************************************)
\* what the fetch of one course may answer
NoCourse == [course |-> FALSE, sections |-> <<>>]
Closed ==
  [course |-> TRUE,
   sections |-> <<[id |-> <<"A", "1">>, available |-> 0, capacity |-> 3, meetings |-> <<>>]>>]
Open ==
  [course |-> TRUE,
   sections |-> <<[id |-> <<"A", "1">>, available |-> 2, capacity |-> 3, meetings |-> <<>>]>>]
CourseData == {NoCourse, Closed, Open}

isRunning == intervalID # NULL

\* a clearInterval that clears nothing
clearNothing(active, id) == active

\* clearInterval(id)
clearInterval(active, id) == active \ {id}

\* start(): a running worker is stopped first, then a new interval is set
\* with the value of this.interval at that moment
start ==
  /\ intervalID' = nextTimer
  /\ timers' = (IF isRunning THEN clearInterval(timers, intervalID) ELSE timers) \cup {nextTimer}
  /\ nextTimer' = nextTimer + 1
  /\ periods' = Append(periods, interval')

\* start() returns the worker
startReturns == "this"

\* stop(): the interval is cleared and its id forgotten; a stopped worker is
\* left as it is
stop ==
  IF isRunning
  THEN /\ timers' = clearInterval(timers, intervalID)
       /\ intervalID' = NULL
  ELSE UNCHANGED <<timers, intervalID>>

\* stop() returns the worker, but returns nothing from its early exit
stopReturns == IF isRunning THEN "this" ELSE "undefined"

\* index.js: new Worker(...).start()
Start ==
  /\ ~isRunning
  /\ UNCHANGED interval
  /\ start
  /\ returned' = startReturns
  /\ UNCHANGED <<storeVars, now, tasks, cycles, ticks, creating, listed, calls, faults, updates, hist>>

\* the notifications a cycle may no longer count on: all of them, when the
\* cycle starts while another one is still running
Overlapped(h, busy) ==
  [n \in NIds |-> IF busy THEN [h[n] EXCEPT !.disturbed = TRUE] ELSE h[n]]

\* a cycle is still running when the timer fires
Overlapping == \E b \in Slots : cycles[b].pc # "idle"

\* a timer tick that starts no cycle while another one is still running
TickSingleFlight(c) ==
  /\ intervalID \in timers
  /\ ticks < MaxCycles
  /\ cycles[c].pc = "idle"
  /\ ~Overlapping
  /\ ticks' = ticks + 1
  /\ cycles' = [cycles EXCEPT ![c] =
                  [IdleCycle EXCEPT !.pc = "list", !.result = cycles[c].result]]
  /\ hist' = hist
  /\ UNCHANGED <<storeVars, now, tasks, intervalID, timers, nextTimer, interval,
                 periods, returned, creating, listed, calls, faults, updates>>

\* the timer fires: intervalHandler calls performSlotCheck, which runs up to
\* its first await (the due-list query). A cycle that overlaps another one is
\* explored as the second and last cycle of a behaviour, before any REST update.
Tick(c) ==
  /\ intervalID \in timers
  /\ ticks < MaxCycles
  /\ cycles[c].pc = "idle"
  /\ \A b \in Slots : b < c => cycles[b].pc # "idle"
  /\ Overlapping => (updates = 0 /\ ticks = 1)
  /\ ticks' = IF Overlapping THEN MaxCycles ELSE ticks + 1
  /\ cycles' = [cycles EXCEPT ![c] =
                  [IdleCycle EXCEPT !.pc = "list", !.result = cycles[c].result]]
  /\ hist' = Overlapped(hist, Overlapping)
  /\ UNCHANGED <<storeVars, now, tasks, intervalID, timers, nextTimer, interval,
                 periods, returned, creating, listed, calls, faults, updates>>

\* the keys of one fetch: institution -> course -> term
GroupKey(notification) ==
  <<notification.institutionKey, notification.courseKey, notification.termKey>>

\* requests for the group of the first due notification only
RequestsFirstOnly(due) ==
  {g \in {GroupKey(due[i]) : i \in DOMAIN due} : g = GroupKey(due[1])}

\* the requests of a cycle: one per group whose three keys are all non-empty
Requests(due) ==
  {g \in {GroupKey(due[i]) : i \in DOMAIN due} : g[1] # "" /\ g[2] # "" /\ g[3] # ""}

\* a grouping that loses the notifications of every group
GroupMembersNone(due, g) == {}

\* notificationsByCourse[institutionKey][courseKey][termKey]
GroupMembers(due, g) == {i \in DOMAIN due : GroupKey(due[i]) = g}

\* a rejection nobody handles ends the process and its timers
intervalHandlerUncaught(active) == {}

\* the .catch of intervalHandler logs the error; the interval stays set
intervalHandlerCatch(active) == active

\* db.listActiveNotifications() answers (or throws: performSlotCheck rejects
\* and intervalHandler logs the error); the fetches of all groups are issued
ListDue(c) ==
  /\ cycles[c].pc = "list"
  /\ \/ /\ LET due == listActiveNotifications(slotDataTtl, -1) IN
             cycles' = [cycles EXCEPT ![c] =
                          [IdleCycle EXCEPT !.pc = "fetch", !.due = due,
                                            !.pending = Requests(due),
                                            !.result = cycles[c].result]]
        /\ UNCHANGED <<faults, timers>>
     \/ /\ CanFail
        /\ faults' = faults - 1
        /\ cycles' = [cycles EXCEPT ![c] = [IdleCycle EXCEPT !.result = "failed"]]
        /\ timers' = intervalHandlerCatch(timers)
  /\ UNCHANGED <<storeVars, now, tasks, intervalID, nextTimer, ticks, interval,
                 periods, returned, creating, listed, calls, updates, hist>>

\* the history of a notification after one evaluation of the given kind
EvalHist(h, kind) ==
  CASE kind = "unsent" ->
         [h EXCEPT !.phase = IF h.phase = 0 THEN 0 ELSE 2, !.sends = 0]
    [] kind \in {"sent", "dispatch"} ->
         [h EXCEPT !.phase = IF h.phase \in {0, 1} THEN 1 ELSE 3,
                   !.sends = (IF h.phase \in {1, 3} THEN h.sends ELSE 0)
                             + (IF kind = "dispatch" THEN 1 ELSE 0)]
    [] OTHER -> h

\* performSingleCheck(notification, data) run up to its first await
EvalTask(notification, data) ==
  LET kind == performSingleCheck(notification, data)
      t == [IdleTask EXCEPT !.prev = notification.notificationSent,
                            !.open = evaluate(notification, data).availableSlots > 0]
  IN CASE kind = "sent" -> createRunCall(t, "true", FALSE, 0)
       [] kind = "unsent" -> createRunCall(t, "false", FALSE, 0)
       [] kind = "dispatch" ->
            IF sendNotificationCallsTwilio(notification)
            THEN [t EXCEPT !.pc = "send", !.ret = 1]
            ELSE createRunCall(t, "true", TRUE, 1)
       [] OTHER -> [IdleTask EXCEPT !.pc = "done", !.outcome = "skipped"]

\* the due-list entry of notification n, as a set (empty when n is not in the group)
EntryOf(due, g, n) == {i \in GroupMembers(due, g) : due[i].notificationId = n}

\* the fetch of group g answers: an error or insufficient data give up the
\* group; sufficient data start performSingleCheck for each of its notifications
FetchDone(c, g, data) ==
  /\ cycles[c].pc = "fetch"
  /\ g \in cycles[c].pending
  /\ \/ /\ CanFail
        /\ faults' = faults - 1
        /\ cycles' = [cycles EXCEPT ![c].pending = @ \ {g}]
        /\ UNCHANGED <<tasks, hist>>
     \/ /\ Insufficient(data)
        /\ cycles' = [cycles EXCEPT ![c].pending = @ \ {g}]
        /\ UNCHANGED <<tasks, hist, faults>>
     \/ /\ ~Insufficient(data)
        /\ cycles' = [cycles EXCEPT ![c].pending = @ \ {g}, ![c].got = @ \cup {g}]
        /\ tasks' = [tasks EXCEPT ![c] =
             [n \in NIds |->
                IF EntryOf(cycles[c].due, g, n) = {} THEN tasks[c][n]
                ELSE EvalTask(cycles[c].due[CHOOSE i \in EntryOf(cycles[c].due, g, n) : TRUE], data)]]
        /\ hist' = [n \in NIds |->
                IF EntryOf(cycles[c].due, g, n) = {} THEN hist[n]
                ELSE EvalHist(hist[n],
                       performSingleCheck(cycles[c].due[CHOOSE i \in EntryOf(cycles[c].due, g, n) : TRUE], data))]
        /\ UNCHANGED faults
  /\ UNCHANGED <<storeVars, now, workerVars, creating, listed, calls, updates>>

\* one of the pending fetches of cycle c answers
Fetched(c) == \E g \in cycles[c].pending, data \in CourseData : FetchDone(c, g, data)

\* the Twilio call answers (or fails, also with an error inside the answer);
\* the run is written with notificationSent true either way
SendDone(c, n) ==
  /\ tasks[c][n].pc = "send"
  /\ \/ /\ SetTask(c, n, createRunCall(tasks[c][n], "true", FALSE, 1))
        /\ UNCHANGED faults
     \/ /\ CanFail
        /\ faults' = faults - 1
        /\ SetTask(c, n, createRunCall(tasks[c][n], "true", TRUE, 1))
  /\ UNCHANGED <<storeVars, now, cycles, workerVars, creating, listed, calls, updates, hist>>

\* the count performSlotCheck sums up over the settled checks
RECURSIVE SumValues(_, _)
SumValues(c, S) ==
  IF S = {} THEN 0
  ELSE LET n == CHOOSE m \in S : TRUE
       IN tasks[c][n].value + SumValues(c, S \ {n})

\* a pointer that deletePastRuns sets to NULL, or a run write that threw,
\* loses what the ledger knew about the notification
PruneHist(c, pruned) ==
  [n \in NIds |->
     IF \/ tasks[c][n].outcome = "threw"
        \/ (pruned /\ n \in ExistingIds /\ deletePastRunsNotifications[n] # notifications[n])
     THEN [hist[n] EXCEPT !.disturbed = TRUE]
     ELSE hist[n]]

\* a wait for the fetches only
SettledFetches(c) == cycles[c].pending = {}

\* Promise.allSettled(requests): every fetch has answered and, each request
\* ending in Promise.allSettled(actions), every check it started has settled
Settled(c) ==
  /\ cycles[c].pending = {}
  /\ \A n \in NIds : tasks[c][n].pc \in {"idle", "done"}

\* all fetches and checks of the cycle have settled: the count is taken,
\* deletePastRuns runs (an error is logged only), performSlotCheck resolves
\* and intervalHandler logs the count
Prune(c) ==
  /\ cycles[c].pc = "fetch"
  /\ Settled(c)
  /\ \/ /\ runs' = deletePastRunsRuns
        /\ notifications' = deletePastRunsNotifications
        /\ hist' = PruneHist(c, TRUE)
        /\ UNCHANGED faults
     \/ /\ CanFail
        /\ faults' = faults - 1
        /\ hist' = PruneHist(c, FALSE)
        /\ UNCHANGED <<runs, notifications>>
  /\ cycles' = [cycles EXCEPT ![c] =
                  [IdleCycle EXCEPT !.result = "ok", !.total = Len(cycles[c].due),
                                    !.sent = SumValues(c, NIds)]]
  /\ tasks' = [tasks EXCEPT ![c] = [n \in NIds |-> IdleTask]]
  /\ UNCHANGED <<nextRunId, now, workerVars, creating, listed, calls, updates>>

\* the updates of the routes: DELETE disables, the SMS webhook verifies, PUT
\* changes fields (any string is taken for a key, the empty one as well)
RestInputs ==
  { [accessKey |-> "k2", enabled |-> FALSE],
    [accessKey |-> "k2", verified |-> TRUE],
    [accessKey |-> "k1", enabled |-> TRUE],
    [accessKey |-> "k2", courseKey |-> ""] }

\* a REST route or the SMS webhook calls db.updateNotification(p)
RestUpdate(p) ==
  /\ updates < MaxUpdates
  /\ \E c \in Slots : cycles[c].pc = "idle"
  /\ updates' = updates + 1
  /\ notifications' = updateNotification(p)
  /\ hist' = [n \in NIds |->
               IF updateNotificationResult(p) = "updated" /\ n \in UpdateTargets(p)
               THEN [hist[n] EXCEPT !.disturbed = TRUE] ELSE hist[n]]
  /\ UNCHANGED <<runs, nextRunId, now, tasks, cycles, workerVars, creating, listed, calls, faults>>

\* the second stored notification: a sibling of the first, a notification of
\* another course, an unverified one, a disabled one
SecondRows ==
  { StoredRow(2, "k2", "CIS1500", SecKey, Phone, TRUE, TRUE),
    StoredRow(2, "k2", "CIS2750", SecKey, Phone, TRUE, TRUE),
    StoredRow(2, "k2", "CIS1500", SecKey, Phone, TRUE, FALSE),
    StoredRow(2, "k2", "CIS1500", SecKey, Phone, FALSE, TRUE) }

Init ==
  /\ \E second \in SecondRows :
       notifications = <<StoredRow(1, "k1", "CIS1500", NoString, Phone, TRUE, TRUE), second>>
  /\ runs = {}
  /\ nextRunId = 1
  /\ now = 0
  /\ tasks = [c \in Slots |-> [n \in NIds |-> IdleTask]]
  /\ cycles = [c \in Slots |-> IdleCycle]
  /\ intervalID = NULL
  /\ timers = {}
  /\ nextTimer = 1
  /\ ticks = 0
  /\ interval = workerInterval * 1000
  /\ periods = <<>>
  /\ returned = "none"
  /\ listed = NotListed
  /\ calls = NoCalls
  /\ creating = [c \in Slots |-> IdleCreate]
  /\ faults = MaxFaults
  /\ updates = 0
  /\ hist = NoHist

Next ==
  \/ Start
  \/ \E c \in Slots : Tick(c)
  \/ \E c \in Slots : ListDue(c)
  \/ \E c \in Slots : Fetched(c)
  \/ \E c \in Slots, n \in NIds : SendDone(c, n)
  \/ \E c \in Slots, n \in NIds : RunInsert(c, n)
  \/ \E c \in Slots, n \in NIds : RunUpdate(c, n)
  \/ \E c \in Slots, n \in NIds : RunRollback(c, n)
  \/ \E c \in Slots : Prune(c)
  \/ \E p \in RestInputs : RestUpdate(p)
  \/ AdvanceClock

Spec == Init /\ [][Next]_vars

(***************************************************************************)
(* The worker started, stopped and re-timed by its owner                   *)
(***************************************************************************)
\* the values the owner assigns to worker.interval, milliseconds
Intervals == {workerInterval * 1000, 2 * workerInterval * 1000}

\* worker.start()
CallStart ==
  /\ nextTimer <= MaxTimers
  /\ UNCHANGED interval
  /\ start
  /\ returned' = startReturns
  /\ UNCHANGED <<storeVars, now, tasks, cycles, ticks, creating, listed, calls, faults, updates, hist>>

\* worker.stop()
CallStop ==
  /\ stop
  /\ returned' = stopReturns
  /\ UNCHANGED <<storeVars, now, tasks, cycles, nextTimer, ticks, interval, periods,
                 creating, listed, calls, faults, updates, hist>>

\* an assignment that stores the value and leaves the timer alone
SetIntervalStoreOnly(intervalValue) ==
  /\ interval' = intervalValue
  /\ UNCHANGED <<intervalID, timers, nextTimer, periods>>
  /\ UNCHANGED <<storeVars, now, tasks, cycles, ticks, returned, creating, listed, calls, faults,
                 updates, hist>>

\* worker.interval = intervalValue: the value is stored, and a running worker
\* is started again
SetInterval(intervalValue) ==
  /\ interval' = intervalValue
  /\ \/ /\ isRunning
        /\ nextTimer <= MaxTimers
        /\ start
     \/ /\ ~isRunning
        /\ UNCHANGED <<intervalID, timers, nextTimer, periods>>
  /\ UNCHANGED <<storeVars, now, tasks, cycles, ticks, returned, creating, listed, calls, faults,
                 updates, hist>>

\* a worker constructed on a new database, not started
InitTimer ==
  /\ notifications = <<>>
  /\ runs = {}
  /\ nextRunId = 1
  /\ now = 0
  /\ tasks = [c \in Slots |-> [n \in NIds |-> IdleTask]]
  /\ cycles = [c \in Slots |-> IdleCycle]
  /\ intervalID = NULL
  /\ timers = {}
  /\ nextTimer = 1
  /\ ticks = 0
  /\ interval = workerInterval * 1000
  /\ periods = <<>>
  /\ returned = "none"
  /\ listed = NotListed
  /\ calls = NoCalls
  /\ creating = [c \in Slots |-> IdleCreate]
  /\ faults = MaxFaults
  /\ updates = 0
  /\ hist = NoHist

NextTimer ==
  \/ CallStart
  \/ CallStop
  \/ \E v \in Intervals : SetInterval(v)
  \/ \E c \in Slots : Tick(c)
  \/ \E c \in Slots : ListDue(c)
  \/ \E c \in Slots : Prune(c)

SpecTimer == InitTimer /\ [][NextTimer]_vars

(***************************************************************************)
(* Worker: the evaluation of a notification against any course             *)
(***************************************************************************)
\* the section criteria of the notifications evaluated
SectionKeys == {NoString, <<" ">>, SecKey, <<"a", "2">>, <<"b">>, <<"c">>}

\* the sections the data source may hold: a section has an id, an available
\* and a capacity count and at most one meeting, which has the same three
SourceSections ==
  [ id : {<<"A", "1">>, <<"a", "1", " ">>, <<"A", "2">>},
    available : 0..2,
    capacity : {3, 4},
    meetings : {<<>>} \cup {<<[id |-> m, available |-> 1, capacity |-> 2]>> :
                              m \in {<<"B">>, <<"A", "2">>}} ]

\* a course of the data source with up to MaxSections sections
InitEvaluate ==
  /\ \E key \in SectionKeys, n \in 0..MaxSections :
       \E sections \in [1..n -> SourceSections] :
         calls = [NoCalls EXCEPT !.checked =
                    [sectionKey |-> key, sections |-> sections, event |-> <<>>]]
  /\ notifications = <<>>
  /\ runs = {}
  /\ nextRunId = 1
  /\ now = 0
  /\ tasks = [c \in Slots |-> [n \in NIds |-> IdleTask]]
  /\ cycles = [c \in Slots |-> IdleCycle]
  /\ intervalID = NULL
  /\ timers = {}
  /\ nextTimer = 1
  /\ ticks = 0
  /\ interval = workerInterval * 1000
  /\ periods = <<>>
  /\ returned = "none"
  /\ listed = NotListed
  /\ creating = [c \in Slots |-> IdleCreate]
  /\ faults = 0
  /\ updates = 0
  /\ hist = NoHist

\* the course is fetched with slotsQuery and performSingleCheck computes the event
Evaluate ==
  /\ calls.checked.event = <<>>
  /\ calls' = [calls EXCEPT !.checked.event =
                 evaluate([sectionKey |-> calls.checked.sectionKey],
                          slotsQuery([course |-> TRUE, sections |-> calls.checked.sections]))]
  /\ UNCHANGED <<storeVars, now, tasks, cycles, workerVars, listed, creating,
                 faults, updates, hist>>

SpecEvaluate == InitEvaluate /\ [][Evaluate]_vars

(***************************************************************************)
(* Notifier: formatMessage, sendNotification, sendVerification, sendMessage *)
(***************************************************************************)
\* formatMessage(messageType, variables). A text is a sequence of
\* characters, a message a sequence of pieces: words, and tokens that start
\* with "$". variables is the object's entries in order (no $app, no $time);
\* a value is a text, <<>> for the empty string, <<"undefined">> for
\* undefined. For each key in turn, msg.replace(/\$key/ig, value || '-')
\* rewrites every piece that starts with the key, in whatever case
formatMessage(messageType, variables) ==
  LET allVariables ==
        << [key |-> <<"$", "a", "p", "p">>, value |-> <<"S">>],
           [key |-> <<"$", "t", "i", "m", "e">>, value |-> <<"T">>] >> \o variables
      Hits(piece) ==
        {i \in DOMAIN allVariables :
           /\ Len(piece) >= Len(allVariables[i].key)
           /\ ToLowerCase(SubSeq(piece, 1, Len(allVariables[i].key)))
                = ToLowerCase(allVariables[i].key)}
      First(piece) == CHOOSE i \in Hits(piece) : \A j \in Hits(piece) : i <= j
      Value(v) == IF v \in {<<>>, <<"undefined">>} THEN <<"-">> ELSE v
  IN [p \in DOMAIN messageType |->
        IF Hits(messageType[p]) = {} THEN messageType[p]
        ELSE Value(allVariables[First(messageType[p])].value)
             \o SubSeq(messageType[p], Len(allVariables[First(messageType[p])].key) + 1,
                       Len(messageType[p]))]

\* a call of the notifier: sendNotification or sendVerification for a
\* notification with any contact of up to MaxContactLen characters, or
\* formatMessage for a template of up to MaxTemplateLen pieces and a bag
\* that has, or has not, a value for $b and for $ab
InitNotify ==
  /\ \/ \E op \in {"sendNotification", "sendVerification"}, verified \in BOOLEAN,
           n \in 0..MaxContactLen :
          \E contact \in [1..n -> {"+", "1", "0", "@", " ", "-", "a"}] :
            calls = [NoCalls EXCEPT !.notify =
                       [op |-> op, contact |-> contact, verified |-> verified,
                        pc |-> "called", outcome |-> "none", type |-> "none",
                        formatted |-> 0, requests |-> 0, message |-> <<>>,
                        response |-> [settled |-> "none", error_code |-> NULL,
                                      error_message |-> ""]]]
     \/ \E n \in 0..MaxTemplateLen,
           b \in {<<>>} \cup {<<[key |-> <<"$", "b">>, value |-> v]>> :
                                v \in {<<>>, <<"undefined">>, <<"k">>}},
           ab \in {<<>>, <<[key |-> <<"$", "a", "b">>, value |-> <<"c">>]>>} :
          \E messageType \in [1..n -> {<<"h", "i">>, <<"$", "a", "p", "p">>,
                                       <<"$", "T", "I", "M", "E">>, <<"$", "b">>,
                                       <<"$", "B">>, <<"$", "a", "b">>}] :
            calls = [NoCalls EXCEPT !.notify =
                       [op |-> "formatMessage", messageType |-> messageType,
                        variables |-> b \o ab, pc |-> "called", message |-> <<>>]]
  /\ notifications = <<>>
  /\ runs = {}
  /\ nextRunId = 1
  /\ now = 0
  /\ tasks = [c \in Slots |-> [n \in NIds |-> IdleTask]]
  /\ cycles = [c \in Slots |-> IdleCycle]
  /\ intervalID = NULL
  /\ timers = {}
  /\ nextTimer = 1
  /\ ticks = 0
  /\ interval = workerInterval * 1000
  /\ periods = <<>>
  /\ returned = "none"
  /\ listed = NotListed
  /\ creating = [c \in Slots |-> IdleCreate]
  /\ faults = 0
  /\ updates = 0
  /\ hist = NoHist

\* formatMessage is applied to the template and the bag
Format ==
  /\ calls.notify.op = "formatMessage"
  /\ calls.notify.pc = "called"
  /\ calls' = [calls EXCEPT !.notify.pc = "done",
                 !.notify.message = formatMessage(calls.notify.messageType,
                                                  calls.notify.variables)]
  /\ UNCHANGED <<storeVars, now, tasks, cycles, workerVars, listed, creating,
                 faults, updates, hist>>

\* sendNotification / sendVerification up to the first await: the checks,
\* getContactInfo, formatMessage, and sendMessage up to twilio.messages.create
Send ==
  LET n == calls.notify
      contactInfo == getContactInfo(n.contact)
      message ==
        IF n.op = "sendNotification"
        THEN formatMessage(<<<<"$", "a", "p", "p">>, <<"$", "k">>, <<"$", "t", "i", "m", "e">>>>,
                           <<[key |-> <<"$", "k">>, value |-> <<"k", "1">>],
                             [key |-> <<"$", "c">>, value |-> n.contact]>>)
        ELSE formatMessage(<<<<"$", "a", "p", "p">>, <<"$", "c">>, <<"$", "k">>>>,
                           <<[key |-> <<"$", "k">>, value |-> <<"k", "1">>],
                             [key |-> <<"$", "c">>, value |-> n.contact]>>)
  IN /\ n.op \in {"sendNotification", "sendVerification"}
     /\ n.pc = "called"
     /\ calls' = [calls EXCEPT !.notify =
          IF n.contact = NoString
          THEN [n EXCEPT !.pc = "done", !.outcome = "threw"]
          ELSE IF n.op = "sendVerification" /\ n.verified
          THEN [n EXCEPT !.pc = "done", !.outcome = "returned"]
          ELSE IF contactInfo.type = "UNKNOWN"
          THEN [n EXCEPT !.pc = "done", !.outcome = "threw", !.type = "UNKNOWN"]
          ELSE IF contactInfo.type = "EMAIL"
          THEN [n EXCEPT !.pc = "done", !.outcome = "threw", !.type = "EMAIL",
                         !.formatted = 1, !.message = message]
          ELSE [n EXCEPT !.pc = "transport", !.type = "TEXT", !.formatted = 1,
                         !.message = message, !.requests = 1]]
     /\ UNCHANGED <<storeVars, now, tasks, cycles, workerVars, listed, creating,
                    faults, updates, hist>>

\* a transport answer that is passed back as it comes
sendMessageUnchecked(msg) == "resolved"

\* sendMessage, the .then of twilio.messages.create: an answer with an
\* error_code or an error_message throws, any other is passed back; NULL is
\* no code, "" no message
sendMessageThen(msg) ==
  IF msg.error_code # NULL \/ msg.error_message # "" THEN "rejected" ELSE "resolved"

\* twilio.messages.create settles: it rejects, or it resolves with an answer
\* and sendMessage settles in turn
Delivered(rejects, msg) ==
  /\ calls.notify.pc = "transport"
  /\ calls' = [calls EXCEPT !.notify.pc = "done",
                 !.notify.outcome = IF rejects THEN "rejected" ELSE sendMessageThen(msg),
                 !.notify.response =
                   IF rejects
                   THEN [settled |-> "rejected", error_code |-> NULL, error_message |-> ""]
                   ELSE [settled |-> "resolved", error_code |-> msg.error_code,
                         error_message |-> msg.error_message]]
  /\ UNCHANGED <<storeVars, now, tasks, cycles, workerVars, listed, creating,
                 faults, updates, hist>>

NextNotify ==
  \/ Format
  \/ Send
  \/ \E rejects \in BOOLEAN, msg \in [error_code : {NULL, 30003},
                                      error_message : {"", "Unreachable"}] :
       Delivered(rejects, msg)

SpecNotify == InitNotify /\ [][NextNotify]_vars

(***************************************************************************)
(* REST routes: PUT /notifications/:accessKey and the POST /sms webhook     *)
(***************************************************************************)
Phone2 == <<"+", "1", "6">>

\* POST /sms up to its first await: getNotification({accessKey}) and the
\* check notification.contact === from
SmsReceived(k, from) ==
  /\ calls.sms.pc = "idle"
  /\ LET found == {i \in ExistingIds : notifications[i].access_key = k}
         allowed == \E i \in found : notifications[i].contact = from
     IN calls' = [calls EXCEPT
                    !.sms = [pc |-> "checked", accessKey |-> k, from |-> from,
                             allowed |-> allowed],
                    !.proven = [n \in NIds |->
                                  IF allowed /\ n \in found THEN calls.proven[n] \cup {from}
                                  ELSE calls.proven[n]]]
  /\ UNCHANGED <<storeVars, now, tasks, cycles, workerVars, listed, creating,
                 faults, updates, hist>>

\* POST /sms after the check: updateNotification({accessKey, verified: true})
\* when the sender owns the notification, the NOT_VERIFIED reply otherwise
SmsAnswered ==
  /\ calls.sms.pc = "checked"
  /\ notifications' =
       IF calls.sms.allowed
       THEN updateNotification([accessKey |-> calls.sms.accessKey, verified |-> TRUE])
       ELSE notifications
  /\ calls' = [calls EXCEPT !.sms = NoCalls.sms]
  /\ UNCHANGED <<runs, nextRunId, now, tasks, cycles, workerVars, listed,
                 creating, faults, updates, hist>>

\* PUT up to the verification message: updateNotification({accessKey, ...data}).
\* A request without a contact ends here, with 200 when a notification came
\* back and 404 otherwise. With a contact, sendVerification follows; when no
\* notification came back it throws, and so does the handler of that error,
\* which reads notification.id: the request ends with 500.
\* The id of the notification returned is result.lastID of the UPDATE: the
\* rowid of the latest INSERT of the connection, whatever row was matched
PutReceived(k, data) ==
  LET result == updateNotificationResult([accessKey |-> k] @@ data) IN
  /\ calls.put.pc = "idle"
  /\ updates < MaxUpdates
  /\ updates' = updates + 1
  /\ notifications' = updateNotification([accessKey |-> k] @@ data)
  /\ IF "contact" \in DOMAIN data /\ result = "updated"
     THEN \E id \in {NULL} \cup NIds :
            calls' = [calls EXCEPT
                        !.put = [pc |-> "sending", id |-> id, contact |-> data.contact,
                                 accessKey |-> k, status |-> 0]]
     ELSE calls' = [calls EXCEPT
                      !.put = [NoCalls.put EXCEPT
                                 !.accessKey = k,
                                 !.status = IF "contact" \in DOMAIN data THEN 500
                                            ELSE IF result = "undefined" THEN 404
                                            ELSE 200]]
  /\ UNCHANGED <<runs, nextRunId, now, tasks, cycles, workerVars, listed,
                 creating, faults, hist>>

\* PUT after sendVerification(notification, 'modified'): the message was
\* sent, or it was not (no service for the contact, or the service failed)
\* and the route calls updateNotification({id, enabled: false}) and throws
PutSent(ok) ==
  /\ calls.put.pc = "sending"
  /\ IF ok
     THEN /\ getContactInfo(calls.put.contact).type = "TEXT"
          /\ UNCHANGED <<notifications, faults>>
     ELSE /\ IF getContactInfo(calls.put.contact).type = "TEXT"
             THEN CanFail /\ faults' = faults - 1
             ELSE UNCHANGED faults
          /\ notifications' = updateNotification([id |-> calls.put.id, enabled |-> FALSE])
  /\ calls' = [calls EXCEPT
                 !.put = [NoCalls.put EXCEPT !.accessKey = calls.put.accessKey,
                                             !.status = IF ok THEN 200 ELSE 500]]
  /\ UNCHANGED <<runs, nextRunId, now, tasks, cycles, workerVars, listed,
                 creating, updates, hist>>

\* POST /notifications up to the verification message: the body is checked
\* and db.createNotification(data) is awaited. A body that lacks a field is
\* answered with 400, one that createNotification throws on (an empty
\* field, a failing INSERT) with 500; else the row is stored under a free
\* access key and sendVerification(notification, 'created') is called
PostReceived(input, k) ==
  /\ calls.post.pc = "idle"
  /\ \/ /\ ~createNotificationValid(input)
        /\ \E status \in {400, 500} :
             calls' = [calls EXCEPT !.post = [pc |-> "idle", id |-> 0, status |-> status]]
        /\ UNCHANGED <<notifications, faults>>
     \/ /\ createNotificationValid(input)
        /\ CanFail
        /\ faults' = faults - 1
        /\ calls' = [calls EXCEPT !.post = [pc |-> "idle", id |-> 0, status |-> 500]]
        /\ UNCHANGED notifications
     \/ /\ createNotificationValid(input)
        /\ ~KeyTaken(k)
        /\ Len(notifications) < Cardinality(NIds)
        /\ notifications' = Append(notifications, NewRow(input, k))
        /\ calls' = [calls EXCEPT !.post = [pc |-> "sending", status |-> 0,
                                            id |-> NewRow(input, k).notification_id]]
        /\ UNCHANGED faults
  /\ UNCHANGED <<runs, nextRunId, now, tasks, cycles, workerVars, listed, creating,
                 updates, hist>>

\* POST /notifications after sendVerification: the message was sent and the
\* notification is answered with 201, or it was not (no service for the
\* contact, or the service failed): the route calls
\* updateNotification({id, enabled: false}) and throws the error
PostSent(ok) ==
  /\ calls.post.pc = "sending"
  /\ IF ok
     THEN /\ getContactInfo(notifications[calls.post.id].contact).type = "TEXT"
          /\ UNCHANGED <<notifications, faults>>
     ELSE /\ IF getContactInfo(notifications[calls.post.id].contact).type = "TEXT"
             THEN CanFail /\ faults' = faults - 1
             ELSE UNCHANGED faults
          /\ notifications' = updateNotification([id |-> calls.post.id, enabled |-> FALSE])
  /\ calls' = [calls EXCEPT !.post = [pc |-> "idle", id |-> calls.post.id,
                                      status |-> IF ok THEN 201 ELSE 500]]
  /\ UNCHANGED <<runs, nextRunId, now, tasks, cycles, workerVars, listed, creating,
                 updates, hist>>

\* the POST route and the updates of the other routes on a new database
NextPost ==
  \/ \E input \in CreateRequests, k \in AccessKeys : PostReceived(input, k)
  \/ \E ok \in BOOLEAN : PostSent(ok)
  \/ \E p \in UpdatePartials : UpdateNotification(p)

SpecPost == InitCreate /\ [][NextPost]_vars

\* two notifications, each verified or not; a verified one was verified by
\* an SMS from its contact
InitVerify ==
  /\ \E v1 \in BOOLEAN, v2 \in BOOLEAN, e2 \in BOOLEAN :
       /\ notifications = <<StoredRow(1, "k1", "CIS1500", NoString, Phone, TRUE, v1),
                            StoredRow(2, "k2", "CIS1500", NoString, Phone2, e2, v2)>>
       /\ calls = [NoCalls EXCEPT
                     !.proven = [n \in NIds |->
                                   IF n = 1 THEN (IF v1 THEN {Phone} ELSE {})
                                   ELSE (IF v2 THEN {Phone2} ELSE {})]]
  /\ runs = {}
  /\ nextRunId = 1
  /\ now = 0
  /\ tasks = [c \in Slots |-> [n \in NIds |-> IdleTask]]
  /\ cycles = [c \in Slots |-> IdleCycle]
  /\ intervalID = NULL
  /\ timers = {}
  /\ nextTimer = 1
  /\ ticks = 0
  /\ interval = workerInterval * 1000
  /\ periods = <<>>
  /\ returned = "none"
  /\ listed = NotListed
  /\ creating = [c \in Slots |-> IdleCreate]
  /\ faults = MaxFaults
  /\ updates = 0
  /\ hist = NoHist

\* "k3" is an access key of no notification, <<>> a request without a body
NextVerify ==
  \/ \E k \in AccessKeys \cup {"k3"}, from \in {Phone, Phone2} : SmsReceived(k, from)
  \/ SmsAnswered
  \/ \E k \in AccessKeys \cup {"k3"}, c \in {Phone, Phone2, Email} :
       PutReceived(k, [contact |-> c])
  \/ \E k \in AccessKeys \cup {"k3"}, data \in {[enabled |-> TRUE], <<>>} :
       PutReceived(k, data)
  \/ \E ok \in BOOLEAN : PutSent(ok)

SpecVerify == InitVerify /\ [][NextVerify]_vars

(***************************************************************************)
(* The worker running for ever, with a due list of any limit               *)
(***************************************************************************)
\* The clock of these behaviours is relative: now stays where it is and a
\* step of the clock moves the timestamp of every run back by slotDataTtl.
\* listActiveNotifications and deletePastRuns only compare timestamps with
\* now. A run that no last_run_id refers to is left out, for the due list
\* joins on last_run_id, and the run of notification n has run_id n.
\* listed.limit is the limit the worker lists its due notifications with:
\* -1 as shipped, or a bound. The first notification may be unverified.
InitLive ==
  /\ \E v1 \in BOOLEAN :
       notifications = <<StoredRow(1, "k1", "CIS1500", NoString, Phone, TRUE, v1),
                         StoredRow(2, "k2", "CIS2750", NoString, Phone, TRUE, TRUE)>>
  /\ \E limit \in {-1, 1, 2} : listed = [NotListed EXCEPT !.limit = limit]
  /\ runs = {}
  /\ nextRunId = 1
  /\ now = runRetention + slotDataTtl
  /\ tasks = [c \in Slots |-> [n \in NIds |-> IdleTask]]
  /\ cycles = [c \in Slots |-> IdleCycle]
  /\ intervalID = NULL
  /\ timers = {}
  /\ nextTimer = 1
  /\ ticks = 0
  /\ interval = workerInterval * 1000
  /\ periods = <<>>
  /\ returned = "none"
  /\ calls = NoCalls
  /\ creating = [c \in Slots |-> IdleCreate]
  /\ faults = 0
  /\ updates = 0
  /\ hist = NoHist

\* the timer fires and the due list answers: the fetches are issued
LiveList ==
  /\ cycles[1].pc = "idle"
  /\ LET due == listActiveNotifications(slotDataTtl, listed.limit) IN
       cycles' = [cycles EXCEPT ![1] =
                    [IdleCycle EXCEPT !.pc = "fetch", !.due = due,
                                      !.pending = Requests(due)]]
  /\ UNCHANGED <<storeVars, now, tasks, workerVars, listed, calls, creating,
                 faults, updates, hist>>

\* the fetch of group g answers. Without data (ok is FALSE) or with
\* insufficient data the group is given up; else every notification of the
\* group is checked, and a check that does not skip records its run
LiveFetch(g, ok, data) ==
  LET checked == {n \in NIds : /\ ok
                               /\ EntryOf(cycles[1].due, g, n) # {}
                               /\ \A i \in EntryOf(cycles[1].due, g, n) :
                                    performSingleCheck(cycles[1].due[i], data) # "skip"}
      Kind(n) == performSingleCheck(
                   cycles[1].due[CHOOSE i \in EntryOf(cycles[1].due, g, n) : TRUE], data)
  IN /\ cycles[1].pc = "fetch"
     /\ g \in cycles[1].pending
     /\ cycles' = [cycles EXCEPT ![1].pending = @ \ {g},
                                 ![1].got = IF ok /\ ~Insufficient(data)
                                            THEN @ \cup {g} ELSE @]
     /\ runs' = {r \in runs : r.notification_id \notin checked}
                \cup {[run_id |-> n, notification_id |-> n, error |-> FALSE,
                       timestamp |-> now,
                       notification_sent |-> (Kind(n) \in {"sent", "dispatch"})] :
                      n \in checked}
     /\ notifications' = [i \in ExistingIds |->
                            IF notifications[i].notification_id \in checked
                            THEN [notifications[i] EXCEPT
                                    !.last_run_id = notifications[i].notification_id]
                            ELSE notifications[i]]
     /\ UNCHANGED <<nextRunId, now, tasks, workerVars, listed, calls, creating,
                    faults, updates, hist>>

\* every fetch has answered: deletePastRuns, and the cycle is over
LiveEnd ==
  /\ cycles[1].pc = "fetch"
  /\ cycles[1].pending = {}
  /\ runs' = deletePastRunsRuns
  /\ notifications' = deletePastRunsNotifications
  /\ cycles' = [cycles EXCEPT ![1] =
                  [IdleCycle EXCEPT !.result = "ok", !.total = Len(cycles[1].due)]]
  /\ UNCHANGED <<nextRunId, now, tasks, workerVars, listed, calls, creating,
                 faults, updates, hist>>

\* slotDataTtl seconds pass; the cycles follow each other faster than that,
\* so no run is older than the retention when they do
LiveAdvance ==
  /\ \A r \in runs : r.timestamp >= slotDataTtl
  /\ runs' = {[r EXCEPT !.timestamp = @ - slotDataTtl] : r \in runs}
  /\ UNCHANGED <<notifications, nextRunId, now, tasks, cycles, workerVars, listed,
                 calls, creating, faults, updates, hist>>

NextLive ==
  \/ LiveList
  \/ \E g \in cycles[1].pending, ok \in BOOLEAN, data \in CourseData : LiveFetch(g, ok, data)
  \/ LiveEnd
  \/ LiveAdvance

\* the worker keeps running and time keeps passing; every fetch is answered,
\* and a fetch for the course of the second notification that is issued
\* again and again is answered with sufficient data again and again. The
\* fetch for the course of the first notification may fail for ever
SpecLive ==
  /\ InitLive
  /\ [][NextLive]_vars
  /\ WF_vars(LiveList)
  /\ WF_vars(LiveEnd)
  /\ WF_vars(LiveAdvance)
  /\ WF_vars(\E g \in cycles[1].pending, ok \in BOOLEAN, data \in CourseData :
               LiveFetch(g, ok, data))
  /\ SF_vars(\E data \in {Closed, Open} : LiveFetch(<<"UOG", "CIS2750", "F19">>, TRUE, data))

(***************************************************************************)
(* Properties of the store                                                 *)
(***************************************************************************)
\* C4: createRun is atomic as observed by callers: when it returns, the
\* owning notification's last_run_id is the id of the run it inserted; when
\* it throws after the pointer update failed (threw or matched no row), the
\* run row it inserted is gone.
C4_CreateRunAtomic ==
  [][\A c \in Slots, n \in NIds :
       /\ (tasks[c][n].pc = "update" /\ tasks'[c][n].outcome = "returned")
            => (n \in DOMAIN notifications'
                /\ notifications'[n].last_run_id = tasks[c][n].runId)
       /\ (tasks[c][n].pc = "rollback" /\ tasks'[c][n].outcome = "threw")
            => (\A r \in runs' : r.run_id # tasks[c][n].runId)]_vars

C6_PointsToLatest ==
  (InFlight = {}) =>
    \A i \in ExistingIds :
      notifications[i].last_run_id # NULL =>
        \E r \in RunsOf(i) :
          /\ r.run_id = notifications[i].last_run_id
          /\ \A q \in RunsOf(i) : q.timestamp <= r.timestamp

(***************************************************************************)
(* Properties of the worker                                                *)
(***************************************************************************)
\* notification n is evaluated by cycle c in this step
Evaluated(c, n) == tasks[c][n].pc = "idle" /\ tasks'[c][n].pc \in {"send", "insert"}

\* the evaluation behind task t called notifier.sendNotification
Dispatched(t) == t.ret = 1

\* the ledger of notification n was not bypassed: no overlapping cycle, no
\* failed run write, no update and no pruned last run
Undisturbed(n) == ~hist[n].disturbed

C3_DecisionTable ==
  [][\A c \in Slots, n \in NIds :
       /\ Evaluated(c, n) =>
            /\ Dispatched(tasks'[c][n]) <=> (~tasks'[c][n].prev /\ tasks'[c][n].open)
            /\ (tasks'[c][n].pc = "send") => Dispatched(tasks'[c][n])
            /\ (tasks'[c][n].pc = "insert") => (tasks'[c][n].sent = tasks'[c][n].open)
       /\ (tasks[c][n].pc = "send" /\ tasks'[c][n].pc = "insert") =>
            (tasks'[c][n].sent = tasks[c][n].open)
       /\ (tasks[c][n].pc = "insert" /\ tasks'[c][n].pc = "update") =>
            /\ Cardinality(runs' \ runs) = 1
            /\ \A r \in runs' \ runs : /\ r.notification_id = n
                                       /\ r.notification_sent = tasks[c][n].open]_vars

\* C3 witness: the run that resets the edge (previous run sent, no slots now)
\* has been inserted
C3_Witness ==
  \E c \in Slots, n \in NIds :
    /\ tasks[c][n].pc = "update"
    /\ tasks[c][n].prev
    /\ ~tasks[c][n].open
    /\ \E r \in runs : r.run_id = tasks[c][n].runId /\ ~r.notification_sent

C8_GroupIsolation ==
  \A c \in Slots :
    cycles[c].pc = "fetch" =>
      \A i \in DOMAIN cycles[c].due :
        (/\ GroupKey(cycles[c].due[i]) \in cycles[c].got
         /\ cycles[c].due[i].enabled
         /\ cycles[c].due[i].verified)
        => tasks[c][cycles[c].due[i].notificationId].pc # "idle"

\* C8 witness: one group of the cycle was given up, the notification of the
\* other group has its run recorded
C8_Witness ==
  \E c \in Slots, i \in NIds :
    /\ cycles[c].pc = "fetch"
    /\ i \in DOMAIN cycles[c].due
    /\ Requests(cycles[c].due) \ (cycles[c].pending \cup cycles[c].got) # {}
    /\ GroupKey(cycles[c].due[i]) \in cycles[c].got
    /\ tasks[c][cycles[c].due[i].notificationId].outcome = "returned"
    /\ RunsOf(cycles[c].due[i].notificationId) # {}

\* a check that failed: its dispatch failed or its run write threw
Failed(t) == t.error \/ t.outcome = "threw"

\* C9: the sent count of a cycle is the number of checks that dispatched
\* without a failure; a failing notification contributes zero
C9_FailuresCountZero ==
  [][\A c \in Slots :
       (cycles[c].pc = "fetch" /\ cycles'[c].pc = "idle") =>
         cycles'[c].sent =
           Cardinality({n \in NIds : /\ tasks[c][n].pc = "done"
                                     /\ tasks[c][n].value = 1
                                     /\ ~Failed(tasks[c][n])})]_vars

\* C10: once started the worker stays running and its timer stays set,
\* whatever fails inside a cycle
C10_TimerSurvives ==
  (nextTimer > 1) => (isRunning /\ intervalID \in timers)

\* C10 witness: after a cycle that failed, the next tick started a cycle that
\* got its due list
C10_Witness ==
  \E c \in Slots :
    /\ cycles[c].result = "failed"
    /\ cycles[c].pc = "fetch"
    /\ isRunning

\* C11: a dispatch that failed does not mark the window as notified: no run
\* that records a dispatch error is marked sent, so that the next cycle of the
\* window dispatches again
C11_FailedDispatchNotMarked ==
  \A r \in runs : r.error => ~r.notification_sent

(***************************************************************************)
(* Properties of createNotification and updateNotification                 *)
(***************************************************************************)
\* C12: no two stored notifications share an access key, and the row a
\* createNotification call inserts (the notification it returns) carries a key
\* that no other stored notification has, also when two calls interleave
\* between the SELECT and the INSERT
C12_AccessKeyUnique ==
  /\ [](\A i, j \in ExistingIds :
          notifications[i].access_key = notifications[j].access_key => i = j)
  /\ [][\A c \in Slots :
          (/\ creating[c].pc = "insert"
           /\ creating'[c].pc = "idle"
           /\ Len(notifications') > Len(notifications)) =>
            /\ notifications'[Len(notifications')].access_key = creating[c].accessKey
            /\ \A i \in DOMAIN notifications : notifications[i].access_key # creating[c].accessKey]_vars

\* C12 witness: two calls drew the same key and both found it free; one has
\* inserted its row, the INSERT of the other is still to come
C12_Witness ==
  \E c \in Slots, b \in Slots :
    /\ b # c
    /\ creating[c].pc = "insert"
    /\ creating[b].pc = "idle"
    /\ KeyTaken(creating[c].accessKey)
    /\ Len(notifications) = 1

\* C13: no updateNotification call, whatever fields it carries, changes the
\* access_key of a stored notification: the table it leaves has the same rows
\* with the same keys, and no step of the store changes the key of a row
C13_AccessKeyImmutable ==
  /\ [](\A p \in UpdatePartials :
          /\ DOMAIN updateNotification(p) = ExistingIds
          /\ \A i \in ExistingIds :
               updateNotification(p)[i].access_key = notifications[i].access_key)
  /\ [][\A i \in ExistingIds :
          /\ i \in DOMAIN notifications'
          /\ notifications'[i].access_key = notifications[i].access_key]_vars

\* C13 witness: an update by id has disabled a notification while another
\* notification, with another access key, is stored
C13_Witness ==
  /\ updates = 1
  /\ Len(notifications) = 2
  /\ ~notifications[1].enabled
  /\ notifications[2].enabled
  /\ notifications[1].access_key # notifications[2].access_key

(***************************************************************************)
(* Properties of the timer                                                 *)
(***************************************************************************)
\* C14: after any sequence of start(), stop() and interval assignments at
\* most one timer is active, isRunning is true exactly when a timer is active
\* (the one intervalID names), and start() on a running worker clears the
\* existing timer before it creates the new one
C14_OneTimer ==
  /\ [](/\ Cardinality(timers) <= 1
        /\ isRunning <=> (timers # {})
        /\ isRunning => (timers = {intervalID}))
  /\ [][(isRunning /\ nextTimer' > nextTimer) =>
          (intervalID \notin timers' /\ timers' = {nextTimer})]_vars

\* C14 witness: a worker that was started more than twice (start() while
\* running, or re-timed) is running on a timer with another period than its first
C14_Witness ==
  /\ nextTimer > 2
  /\ isRunning
  /\ returned = "this"
  /\ Len(periods) > 2
  /\ periods[Len(periods)] # periods[1]

\* C15: start() and stop() return the worker in every state, also stop() on
\* a worker that is stopped
C15_ReturnsWorker ==
  returned \in {"none", "this"}

\* C16: the timer of a running worker always has the period last assigned;
\* an assignment of another value while running replaces the timer by a new one
\* with that period and starts no cycle in that step; while stopped it only
\* stores the value and the worker stays stopped
C16_IntervalAssignment ==
  /\ [](isRunning => (intervalID \in DOMAIN periods /\ periods[intervalID] = interval))
  /\ [][(interval' # interval) =>
          /\ cycles' = cycles /\ ticks' = ticks /\ tasks' = tasks
          /\ isRunning =>
               /\ isRunning'
               /\ intervalID' # intervalID
               /\ timers' = {intervalID'}
               /\ periods'[intervalID'] = interval'
          /\ ~isRunning =>
               /\ ~isRunning'
               /\ timers' = timers
               /\ nextTimer' = nextTimer]_vars

\* C16 witness: a worker re-timed while running has ticked on its new timer
C16_Witness ==
  /\ isRunning
  /\ interval # periods[1]
  /\ periods[intervalID] = interval
  /\ \E c \in Slots : cycles[c].pc = "list"
  /\ ticks = 1

(***************************************************************************)
(* Properties of listActiveNotifications                                   *)
(***************************************************************************)
\* C17: listActiveNotifications(ttl) returns only notifications that are
\* enabled and whose last_run_id is NULL or whose last run is older than ttl
\* seconds, each once and joined with its last run (lastRunId, runId and that
\* run's notificationSent; not sent when there is none); without a limit it
\* returns all of them
C17_ListsExactlyDue ==
  LET res == listed.result
      due == {i \in ExistingIds :
                /\ notifications[i].enabled
                /\ \/ notifications[i].last_run_id = NULL
                   \/ \E r \in runs : /\ r.run_id = notifications[i].last_run_id
                                      /\ r.timestamp + listed.ttl < now}
  IN listed.outcome = "returned" =>
       /\ \A k \in DOMAIN res :
            /\ res[k].notificationId \in due
            /\ \A m \in DOMAIN res : res[m].notificationId = res[k].notificationId => m = k
            /\ res[k].lastRunId = notifications[res[k].notificationId].last_run_id
            /\ res[k].runId = res[k].lastRunId
            /\ res[k].accessKey = notifications[res[k].notificationId].access_key
            /\ res[k].notificationSent =
                 (/\ res[k].lastRunId # NULL
                  /\ \E r \in runs : r.run_id = res[k].lastRunId /\ r.notification_sent)
       /\ listed.limit < 0 => {res[k].notificationId : k \in DOMAIN res} = due

\* C17 witness: a call with the configured TTL and no limit returned one
\* notification and left out an enabled one whose last run is exactly one TTL old
C17_Witness ==
  /\ listed.outcome = "returned"
  /\ listed.ttl = slotDataTtl
  /\ listed.limit = -1
  /\ Len(listed.result) = 1
  /\ \E i \in ExistingIds :
       /\ notifications[i].enabled
       /\ \E r \in runs : r.run_id = notifications[i].last_run_id
                          /\ r.timestamp + slotDataTtl = now

\* C18: the result is ordered by last-run timestamp ascending (never-checked
\* notifications first); with a limit L >= 0 it has at most L entries, the
\* first L of the unlimited result, and with limit -1 it is the unlimited result
C18_OrderAndLimit ==
  LET res == listed.result
      full == listActiveNotifications(listed.ttl, -1)
      \* the time of the last run of an entry; an entry without a run sorts
      \* before every run
      LastRunTime(entry) ==
        IF entry.runId = NULL THEN -1 ELSE RunById(entry.runId).timestamp
  IN listed.outcome = "returned" =>
       /\ \A k \in DOMAIN res, m \in DOMAIN res :
            k < m => LastRunTime(res[k]) <= LastRunTime(res[m])
       /\ listed.limit >= 0 =>
            /\ Len(res) <= listed.limit
            /\ Len(res) = (IF Len(full) < listed.limit THEN Len(full) ELSE listed.limit)
            /\ res = SubSeq(full, 1, Len(res))
       /\ listed.limit = -1 => res = full

\* C18 witness: a call with limit 1 returned the longer unchecked of two due
\* notifications with runs at different times
C18_Witness ==
  /\ listed.outcome = "returned"
  /\ listed.limit = 1
  /\ Len(listed.result) = 1
  /\ listed.result[1].runId # NULL
  /\ listed.result[1].notificationId = 2
  /\ Len(listActiveNotifications(listed.ttl, -1)) = 2
  /\ \A i \in ExistingIds : \E r \in runs :
       /\ r.run_id = notifications[i].last_run_id
       /\ r.timestamp >= RunById(listed.result[1].runId).timestamp
       /\ (i # 2 => r.timestamp > RunById(listed.result[1].runId).timestamp)

C21_UndefinedWhenNoMatch ==
  \A p \in UpdatePartials :
    LET hasId == "id" \in DOMAIN p
        hasKey == "accessKey" \in DOMAIN p
        Matches(row) ==
          IF hasId THEN row.notification_id = p.id
          ELSE row.access_key = p.accessKey
    IN /\ (~hasId /\ ~hasKey) => updateNotificationResult(p) = "threw"
       /\ (hasId \/ hasKey) =>
            /\ updateNotificationResult(p) # "threw"
            /\ \A i \in ExistingIds :
                 ~Matches(notifications[i]) => updateNotification(p)[i] = notifications[i]
            /\ (\A i \in ExistingIds : ~Matches(notifications[i])) =>
                 /\ updateNotificationResult(p) = "undefined"
                 /\ updateNotification(p) = notifications

(***************************************************************************)
(* Properties of the REST routes                                           *)
(***************************************************************************)
\* C22: a notification whose contact an update changed is unverified
\* afterwards and stays unverified, hence skipped by the worker, until a
\* verification succeeds for its new contact: a verified notification's
\* contact is one an SMS carrying its access key came from
C22_VerifiedForContact ==
  \A i \in ExistingIds :
    notifications[i].verified => notifications[i].contact \in calls.proven[i]

(***************************************************************************)
(* Properties of createNotification                                        *)
(***************************************************************************)
\* C23: createNotification throws and stores nothing when institutionKey,
\* courseKey, termKey or contact is missing: no call with such an argument
\* gets past the check, and the step that rejects it leaves the table and
\* every call in flight as they were. A call that succeeds stores exactly one
\* new row, with the fields of its argument, enabled = true unless the
\* argument gives enabled, verified = false and last_run_id = NULL, and
\* changes no other row
C23_CreateValidated ==
  /\ [](\A c \in Slots :
          creating[c].pc # "idle" =>
            /\ creating[c].input.institutionKey # ""
            /\ creating[c].input.courseKey # ""
            /\ creating[c].input.termKey # ""
            /\ creating[c].input.contact # NoString)
  /\ [][calls'.rejected # calls.rejected =>
          /\ \/ calls'.rejected.institutionKey = ""
             \/ calls'.rejected.courseKey = ""
             \/ calls'.rejected.termKey = ""
             \/ calls'.rejected.contact = NoString
          /\ notifications' = notifications
          /\ creating' = creating]_vars
  /\ [][Len(notifications') # Len(notifications) =>
          /\ Len(notifications') = Len(notifications) + 1
          /\ SubSeq(notifications', 1, Len(notifications)) = notifications
          /\ \E c \in Slots :
               LET input == creating[c].input
                   row == notifications'[Len(notifications')]
               IN /\ creating[c].pc = "insert"
                  /\ creating'[c].pc = "idle"
                  /\ row.institution_key = input.institutionKey
                  /\ row.course_key = input.courseKey
                  /\ row.section_key = input.sectionKey
                  /\ row.term_key = input.termKey
                  /\ row.contact = input.contact
                  /\ row.access_key = creating[c].accessKey
                  /\ row.enabled = (IF "enabled" \in DOMAIN input THEN input.enabled ELSE TRUE)
                  /\ row.verified = FALSE
                  /\ row.last_run_id = NULL]_vars

\* C23 witness: a call without a term key was rejected, and two calls have
\* stored a row each: one enabled by default, one given enabled = false
C23_Witness ==
  /\ calls.rejected # <<>>
  /\ calls.rejected.termKey = ""
  /\ updates = 0
  /\ Len(notifications) = 2
  /\ notifications[1].enabled
  /\ ~notifications[2].enabled
  /\ \A i \in ExistingIds : ~notifications[i].verified /\ notifications[i].last_run_id = NULL

\* C24: no operation removes a notification: every step leaves every stored
\* notification stored under its id, so the set of stored ids only grows; and
\* the update the DELETE route makes, {accessKey, enabled: false}, keeps
\* every row, sets enabled = false (and last_run_id = NULL) on the row with
\* that access key and leaves every other row as it is
C24_NeverRemoved ==
  /\ [][/\ Len(notifications') >= Len(notifications)
        /\ \A i \in DOMAIN notifications :
             /\ i \in DOMAIN notifications'
             /\ notifications'[i].notification_id = notifications[i].notification_id]_vars
  /\ [](\A k \in AccessKeys :
          LET after == updateNotification([accessKey |-> k, enabled |-> FALSE])
          IN /\ DOMAIN after = DOMAIN notifications
             /\ \A i \in DOMAIN notifications :
                  after[i] = IF notifications[i].access_key = k
                             THEN [notifications[i] EXCEPT !.enabled = FALSE,
                                                           !.last_run_id = NULL]
                             ELSE notifications[i])

\* C24 witness: two notifications were created, enabled by default, and an
\* update has disabled the first: both are still stored
C24_Witness ==
  /\ updates = 1
  /\ Len(notifications) = 2
  /\ \A i \in DOMAIN notifications : notifications[i].contact = Phone
  /\ ~notifications[1].enabled
  /\ notifications[2].enabled

(***************************************************************************)
(* Properties of the evaluation                                            *)
(***************************************************************************)
\* C25 (as stated): for a notification without a section criterion,
\* availableSlots is the maximum of the sections' available counts and
\* totalSlots is the capacity of a section that attains it
C25_CapacityOfMaximum ==
  LET c == calls.checked
      counts == {c.sections[i].available : i \in DOMAIN c.sections} IN
  (c.event # <<>> /\ Trim(ToLowerCase(c.sectionKey)) = NoString /\ c.sections # <<>>) =>
    /\ c.event.availableSlots \in counts
    /\ \A n \in counts : n <= c.event.availableSlots
    /\ \E i \in DOMAIN c.sections :
         /\ c.sections[i].available = c.event.availableSlots
         /\ c.sections[i].capacity = c.event.totalSlots

\* C25 (amended): for a notification without a section criterion,
\* availableSlots is the largest available count of the sections, never
\* their sum, and 0 for a course without sections; totalSlots is the capacity
\* of the first section that attains it when it is above 0, and 0 when no
\* section has a seat available
C25_MaximumNotSum ==
  LET c == calls.checked
      counts == {c.sections[i].available : i \in DOMAIN c.sections} \cup {0} IN
  (c.event # <<>> /\ Trim(ToLowerCase(c.sectionKey)) = NoString) =>
    /\ c.event.availableSlots \in counts
    /\ \A n \in counts : n <= c.event.availableSlots
    /\ IF c.event.availableSlots > 0
       THEN \E i \in DOMAIN c.sections :
              /\ c.sections[i].available = c.event.availableSlots
              /\ c.sections[i].capacity = c.event.totalSlots
              /\ \A j \in 1..(i - 1) : c.sections[j].available < c.event.availableSlots
       ELSE c.event.totalSlots = 0

\* C25 witness: two sections with 1 and 2 seats available and capacities 4
\* and 3 were evaluated to 2 of 3
C25_Witness ==
  /\ calls.checked.sectionKey = <<" ">>
  /\ Len(calls.checked.sections) = 2
  /\ calls.checked.sections[1].available = 1
  /\ calls.checked.sections[1].capacity = 4
  /\ calls.checked.sections[2].available = 2
  /\ calls.checked.sections[2].capacity = 3
  /\ calls.checked.event = [availableSlots |-> 2, totalSlots |-> 3]

\* C26: for a notification with a section criterion the candidates are the
\* sections of the course followed by all their meetings; the event carries
\* the available and capacity counts of the first candidate whose identifier
\* equals the criterion, both lower-cased and trimmed, and 0 / 0 when no
\* section or meeting matches
C26_FirstMatchingCandidate ==
  LET c == calls.checked
      key == Trim(ToLowerCase(c.sectionKey))
      candidates == c.sections \o FlatMeetings(c.sections)
      matching == {i \in DOMAIN candidates : Trim(ToLowerCase(candidates[i].id)) = key}
      first == CHOOSE i \in matching : \A j \in matching : i <= j
  IN (c.event # <<>> /\ key # NoString) =>
       IF matching = {}
       THEN c.event = [availableSlots |-> 0, totalSlots |-> 0]
       ELSE c.event = [availableSlots |-> candidates[first].available,
                       totalSlots |-> candidates[first].capacity]

C28_UnknownContactThrows ==
  LET n == calls.notify IN
  (n # <<>> /\ n.op \in {"sendNotification", "sendVerification"} /\ n.pc # "called") =>
    /\ (~MatchesPhone(StripPhone(n.contact)) /\ ~MatchesEmail(n.contact)) =>
         (n.outcome = "threw" /\ n.formatted = 0 /\ n.requests = 0)
    /\ (MatchesPhone(StripPhone(n.contact)) /\ n.type # "none") => n.type = "TEXT"

\* C28 (amended): a contact that matches neither pattern makes
\* sendNotification throw, and sendVerification throw unless the contact is
\* not empty and the notification is already verified, in which case it
\* returns; either way no message is formatted and no transport call made.
\* A contact that matches the phone pattern is classified as text, and no
\* contact matches both patterns
C28_UnknownContactStops ==
  LET n == calls.notify IN
  (n # <<>> /\ n.op \in {"sendNotification", "sendVerification"} /\ n.pc # "called") =>
    /\ (~MatchesPhone(StripPhone(n.contact)) /\ ~MatchesEmail(n.contact)) =>
         /\ n.formatted = 0
         /\ n.requests = 0
         /\ n.message = <<>>
         /\ n.outcome = IF n.op = "sendVerification" /\ n.verified /\ n.contact # NoString
                        THEN "returned" ELSE "threw"
    /\ (MatchesPhone(StripPhone(n.contact)) /\ n.outcome # "returned") =>
         (n.type = "TEXT" /\ n.requests = 1)
    /\ ~(MatchesPhone(StripPhone(n.contact)) /\ MatchesEmail(n.contact))

\* C28 witness: sendVerification for an unverified notification whose
\* contact starts like a phone number but matches neither pattern has thrown
\* without a message
C28_Witness ==
  /\ calls.notify # <<>>
  /\ calls.notify.op = "sendVerification"
  /\ ~calls.notify.verified
  /\ calls.notify.contact = <<"+", "0", "1", "1">>
  /\ calls.notify.outcome = "threw"
  /\ calls.notify.formatted = 0

\* C29: formatMessage replaces every $name token of the template, in
\* whatever case, by the value of its variable, or by the fallback token
\* when the variable is absent from the bag or falsy: no piece of the result
\* starts with "$" and none is the text undefined
C29_EveryTokenReplaced ==
  LET n == calls.notify IN
  (n # <<>> /\ n.op = "formatMessage" /\ n.pc = "done") =>
    /\ Len(n.message) = Len(n.messageType)
    /\ \A p \in DOMAIN n.messageType :
         /\ n.message[p] # <<"undefined">>
         /\ n.messageType[p][1] = "$" => n.message[p][1] # "$"
         /\ n.messageType[p][1] # "$" => n.message[p] = n.messageType[p]

\* C30: sendMessage never reports success for a delivery whose transport
\* answer carries an error code or an error message, it rejects instead; a
\* delivery reported as a success had one transport call whose answer
\* carried neither. For the e-mail channel the send always fails, with no
\* transport call
C30_NoSuccessOnEmbeddedError ==
  LET n == calls.notify IN
  (n # <<>> /\ n.op \in {"sendNotification", "sendVerification"}) =>
    /\ (n.pc = "done" /\ n.response.settled = "resolved"
          /\ (n.response.error_code # NULL \/ n.response.error_message # "")) =>
         n.outcome = "rejected"
    /\ n.outcome = "resolved" =>
         /\ n.type = "TEXT"
         /\ n.requests = 1
         /\ n.response = [settled |-> "resolved", error_code |-> NULL,
                          error_message |-> ""]
    /\ (n.pc # "called" /\ n.type = "EMAIL") =>
         (n.pc = "done" /\ n.outcome = "threw" /\ n.requests = 0
            /\ n.response.settled = "none")

\* C30 witness: the transport resolved with an error message and no error
\* code, and the send to a phone number was rejected
C30_Witness ==
  /\ calls.notify # <<>>
  /\ calls.notify.op = "sendNotification"
  /\ calls.notify.pc = "done"
  /\ calls.notify.type = "TEXT"
  /\ calls.notify.response = [settled |-> "resolved", error_code |-> NULL,
                              error_message |-> "Unreachable"]
  /\ calls.notify.outcome = "rejected"

\* C31: sendNotification and sendVerification fail before sending when the
\* subscription has no contact; sendNotification also fails, and sends
\* nothing, when the subscription is unverified; sendVerification for an
\* already verified subscription returns without sending and without error
C31_FailFast ==
  LET n == calls.notify IN
  (n # <<>> /\ n.op \in {"sendNotification", "sendVerification"} /\ n.pc # "called") =>
    /\ n.contact = NoString => (n.outcome = "threw" /\ n.requests = 0)
    /\ (n.op = "sendNotification" /\ ~n.verified) =>
         (n.outcome = "threw" /\ n.requests = 0)
    /\ (n.op = "sendVerification" /\ n.verified /\ n.contact # NoString) =>
         (n.outcome = "returned" /\ n.requests = 0)

\* C32: a notification's verified flag becomes true only through an inbound
\* verification reply whose sender equals the notification's stored contact
\* and whose body equals its access key; a reply from any other sender or
\* with any other key leaves every verified flag as it was
C32_VerifiedOnlyByOwner ==
  [][ /\ \A i \in ExistingIds :
           (~notifications[i].verified /\ notifications'[i].verified) =>
             /\ calls.sms.pc = "checked"
             /\ calls'.sms.pc = "idle"
             /\ calls.sms.accessKey = notifications[i].access_key
             /\ calls.sms.from = notifications[i].contact
      /\ (calls.sms.pc = "checked" /\ calls'.sms.pc = "idle" /\ ~calls.sms.allowed) =>
           notifications' = notifications ]_vars

\* C33: a PUT for an access key that matches no stored notification is
\* answered with 404, also when its body holds a contact, and changes no
\* stored state
C33_UnknownKeyNotFound ==
  [][ (calls.put.pc = "idle" /\ calls'.put # calls.put
         /\ \A i \in ExistingIds : notifications[i].access_key # calls'.put.accessKey) =>
        (calls'.put.status = 404 /\ notifications' = notifications /\ runs' = runs) ]_vars

(***************************************************************************)
(* Properties of a cycle of the worker                                     *)
(***************************************************************************)
\* C34 (as stated): in one cycle the worker issues exactly one fetch per
\* distinct (institutionKey, courseKey, termKey) among the due
\* notifications, every due notification belongs to exactly one group, and
\* a notification is evaluated only when the fetch of its own group answers
C34_OneFetchPerTriple ==
  [][\A c \in Slots :
       LET Triple(d) == <<d.institutionKey, d.courseKey, d.termKey>>
           Triples(due) == {Triple(due[i]) : i \in DOMAIN due}
       IN /\ (cycles[c].pc = "list" /\ cycles'[c].pc = "fetch") =>
               /\ cycles'[c].pending = Triples(cycles'[c].due)
               /\ \A i \in DOMAIN cycles'[c].due :
                    Cardinality({g \in Triples(cycles'[c].due) :
                                   i \in GroupMembers(cycles'[c].due, g)}) = 1
          /\ (cycles[c].pc = "fetch" /\ cycles'[c].pc = "fetch") =>
               (cycles'[c].pending \subseteq cycles[c].pending /\ cycles'[c].due = cycles[c].due)
          /\ \A n \in NIds :
               (tasks[c][n].pc = "idle" /\ tasks'[c][n].pc # "idle") =>
                 \E g \in cycles[c].pending \ cycles'[c].pending, i \in DOMAIN cycles[c].due :
                   /\ cycles[c].due[i].notificationId = n
                   /\ Triple(cycles[c].due[i]) = g]_vars

\* C34 (amended): in one cycle the worker issues exactly one fetch per
\* distinct (institutionKey, courseKey, termKey) whose three keys are all
\* non-empty among the due notifications, and none for a triple with an
\* empty key; every due notification belongs to exactly one group, and a
\* notification is evaluated only when the fetch of its own group answers,
\* so that a due notification with an empty key is not evaluated
C34_OneFetchPerFullTriple ==
  [][\A c \in Slots :
       LET Triple(d) == <<d.institutionKey, d.courseKey, d.termKey>>
           Triples(due) == {Triple(due[i]) : i \in DOMAIN due}
       IN /\ (cycles[c].pc = "list" /\ cycles'[c].pc = "fetch") =>
               /\ cycles'[c].pending =
                    {g \in Triples(cycles'[c].due) : g[1] # "" /\ g[2] # "" /\ g[3] # ""}
               /\ \A i \in DOMAIN cycles'[c].due :
                    Cardinality({g \in Triples(cycles'[c].due) :
                                   i \in GroupMembers(cycles'[c].due, g)}) = 1
          /\ (cycles[c].pc = "fetch" /\ cycles'[c].pc = "fetch") =>
               (cycles'[c].pending \subseteq cycles[c].pending /\ cycles'[c].due = cycles[c].due)
          /\ \A n \in NIds :
               (tasks[c][n].pc = "idle" /\ tasks'[c][n].pc # "idle") =>
                 \E g \in cycles[c].pending \ cycles'[c].pending, i \in DOMAIN cycles[c].due :
                   /\ cycles[c].due[i].notificationId = n
                   /\ Triple(cycles[c].due[i]) = g
                   /\ g[1] # "" /\ g[2] # "" /\ g[3] # ""]_vars

\* C34 witness: a cycle with two due notifications of two courses got the
\* data of both fetches and evaluated both notifications
C34_Witness ==
  \E c \in Slots :
    /\ cycles[c].pc = "fetch"
    /\ Len(cycles[c].due) = 2
    /\ cycles[c].due[1].courseKey # cycles[c].due[2].courseKey
    /\ Cardinality(cycles[c].got) = 2
    /\ \A n \in NIds : tasks[c][n].pc # "idle"

\* C35: in one cycle each due notification gets at most one run recorded,
\* and a run is recorded for a notification only after its evaluation in
\* that cycle: a run is inserted by the check of a due notification of a
\* running cycle, a check inserts once, and a check starts only when the
\* fetch of the notification's group answers and lasts until the cycle ends
C35_OneRunPerEvaluation ==
  [][ /\ (runs' \ runs # {}) =>
           \E c \in Slots, n \in NIds :
             /\ tasks[c][n].pc = "insert"
             /\ tasks'[c][n].pc = "update"
             /\ cycles[c].pc = "fetch"
             /\ \E i \in DOMAIN cycles[c].due : cycles[c].due[i].notificationId = n
             /\ \E r \in runs' : /\ runs' \ runs = {r}
                                 /\ r.notification_id = n
                                 /\ r.run_id = tasks'[c][n].runId
      /\ \A c \in Slots, n \in NIds :
           /\ (tasks[c][n].pc = "idle" /\ tasks'[c][n].pc # "idle") =>
                /\ cycles[c].pc = "fetch"
                /\ GroupKey(cycles[c].due[CHOOSE i \in DOMAIN cycles[c].due :
                                            cycles[c].due[i].notificationId = n])
                     \in cycles[c].pending \ cycles'[c].pending
           /\ (tasks[c][n].pc # "insert" /\ tasks'[c][n].pc = "insert") =>
                tasks[c][n].pc \in {"idle", "send"}
           /\ (tasks[c][n].pc # "send" /\ tasks'[c][n].pc = "send") =>
                tasks[c][n].pc = "idle"
           /\ (tasks[c][n].pc # "idle" /\ tasks'[c][n].pc = "idle") =>
                (cycles[c].pc = "fetch" /\ cycles'[c].pc = "idle") ]_vars

\* C35 witness: both due notifications of a running cycle have been
\* evaluated and each has one run, its own, recorded by its check
C35_Witness ==
  \E c \in Slots :
    /\ cycles[c].pc = "fetch"
    /\ Len(cycles[c].due) = 2
    /\ \A n \in NIds :
         /\ tasks[c][n].pc = "done"
         /\ tasks[c][n].outcome = "returned"
         /\ Cardinality(RunsOf(n)) = 1
         /\ \A r \in RunsOf(n) : r.run_id = notifications[n].last_run_id

\* C36: within a cycle, the pruning of old runs starts only after every
\* fetch of the cycle has answered and every check it started (evaluation,
\* dispatch, run write) has settled; a pruning that fails deletes nothing
\* and does not make the cycle fail: the cycle resolves with its counts
C36_PruneAfterSettled ==
  [][ /\ \A c \in Slots :
           (cycles[c].pc = "fetch" /\ cycles'[c].pc = "idle") =>
             /\ cycles[c].pending = {}
             /\ \A n \in NIds : tasks[c][n].pc \notin {"send", "insert", "update", "rollback"}
             /\ \A i \in DOMAIN cycles[c].due :
                  GroupKey(cycles[c].due[i]) \in cycles[c].got =>
                    tasks[c][cycles[c].due[i].notificationId].pc = "done"
             /\ cycles'[c].result = "ok"
             /\ cycles'[c].total = Len(cycles[c].due)
             /\ cycles'[c].sent = SumValues(c, NIds)
             /\ faults' # faults => (runs' = runs /\ notifications' = notifications)
      /\ (runs' # runs /\ runs' \subseteq runs) =>
           \/ \E c \in Slots : cycles[c].pc = "fetch" /\ cycles'[c].pc = "idle"
           \/ \E c \in Slots, n \in NIds : tasks[c][n].pc = "rollback" ]_vars

\* C36 witness: the only cycle so far evaluated both notifications and
\* recorded both runs without a failure, its pruning failed, and it
\* resolved with its counts
C36_Witness ==
  \E c \in Slots :
    /\ ticks = 1
    /\ cycles[c].pc = "idle"
    /\ cycles[c].result = "ok"
    /\ cycles[c].total = 2
    /\ faults = MaxFaults - 1
    /\ \A n \in NIds : \E r \in RunsOf(n) : ~r.error /\ notifications[n].last_run_id = r.run_id

\* C37: the summary a cycle resolves with has total equal to the number of
\* notifications in the cycle's due list and sent equal to the number of
\* notifications whose message was dispatched successfully in that cycle
C37_SummaryCounts ==
  [][\A c \in Slots :
       (cycles[c].pc = "fetch" /\ cycles'[c].pc = "idle") =>
         /\ cycles'[c].total = Len(cycles[c].due)
         /\ cycles'[c].sent =
              Cardinality({n \in NIds : /\ tasks[c][n].pc = "done"
                                        /\ tasks[c][n].outcome = "returned"
                                        /\ tasks[c][n].value = 1
                                        /\ ~tasks[c][n].error})]_vars

\* C38: overlapping cycles are not prevented: while the timer is set, a tick
\* can start a new cycle although a cycle is still running (the model
\* explores the overlap as the second cycle of a behaviour, before any
\* update through the routes)
C38_NoSingleFlight ==
  \A c \in Slots :
    (/\ intervalID \in timers
     /\ Overlapping
     /\ ticks = 1
     /\ updates = 0
     /\ cycles[c].pc = "idle"
     /\ \A b \in Slots : b < c => cycles[b].pc # "idle")
    => ENABLED Tick(c)

\* C38 witness: two unsettled cycles work on the same notification, each
\* with its check of it in flight
C38_Witness ==
  \E n \in NIds :
    /\ \A c \in Slots : cycles[c].pc = "fetch"
    /\ \A c \in Slots : tasks[c][n].pc \in {"send", "insert", "update"}

====
